---- MODULE Spec2Model ----
(***************************************************************************)
(* Trending aggregation of bangumi-server-private: the lock-guarded        *)
(* recomputation updateTrendingSubjects and the reader getTrendingSubjects *)
(* (lib/trending/subject.ts), over a Redis cache and the relational store. *)
(* Every await of the source is one atomic step of an invocation; several  *)
(* invocations interleave at those steps.                                  *)
(***************************************************************************)
EXTENDS Integers, Sequences, FiniteSets, TLC

\* ------------------------------------------------------------------ bounds

\* Redis expiry is observed in steps of this many seconds.
TickStep == 3600
\* The earliest value Date.now() returns in the model (same unit as durations).
BaseNow == 5000000
\* The distance between the two values Date.now() can return.
ClockStep == 3600
\* Largest limit and offset a reader passes.
MaxLimit == 2
MaxOffset == 1
\* Largest integer the JSON number parser has to recognise.
MaxNum == 30
\* The subjects of the list store have the ids 1..MaxSubject.
MaxSubject == 28
\* The pages callers ask for are 1..MaxPage.
MaxPage == 2
\* List cache expiry is observed in steps of this many seconds.
ListTickStep == 3600
\* Longest id sequence a caller passes to a batch fetcher.
MaxIds == 2
\* Entity cache expiry is observed in steps of this many seconds.
CacheTickStep == 2592000

\* --------------------------------------------------------- program constants

\* redis.set(lockKey, 1, 'EX', 3600)
LockEX == 3600
\* .limit(1000)
QueryLimit == 1000
\* getTrendingPeriodDuration(TrendingPeriod.Month): 30 days
MonthDuration == 2592000
\* const ONE_MONTH = 2592000
ONE_MONTH == 2592000
\* redis.setex(getSubjectTopicCacheKey(d.id), 86400, ...)
TopicEX == 86400

\* query.limit(24).offset((page - 1) * 24), Math.ceil(count / 24)
PageSize == 24
\* redis.setex(cacheKey, 86400, ...) of page 1
FirstPageEX == 86400
\* redis.setex(cacheKey, 3600, ...) of the other pages
OtherPageEX == 3600

\* Concurrent invocations of updateTrendingSubjects (scheduler runs, admin calls).
Procs == {"a", "b"}

\* The (subjectType, period) pairs callers pass: two kinds with the month
\* period, and a period that has no duration.
Targets == { << "Anime", "month" >>, << "Book", "month" >>, << "Anime", "unknown" >> }

\* What Date.now() may return at an invocation.
NowValues == {BaseNow, BaseNow + ClockStep}

\* ------------------------------------------------------------------- store

\* Rows of chii_subjects: id, typeID, ban, nsfw.
chiiSubjects ==
  { [id |-> 1, typeID |-> "Anime", ban |-> 0, nsfw |-> FALSE],
    [id |-> 2, typeID |-> "Anime", ban |-> 0, nsfw |-> FALSE],
    [id |-> 3, typeID |-> "Anime", ban |-> 1, nsfw |-> FALSE],
    [id |-> 4, typeID |-> "Anime", ban |-> 0, nsfw |-> TRUE],
    [id |-> 5, typeID |-> "Book", ban |-> 0, nsfw |-> FALSE],
    [id |-> 6, typeID |-> "Book", ban |-> 0, nsfw |-> FALSE] }

\* Three datelines around the month window of the two clock values: outside
\* both windows, inside the earlier window only, inside both.
DOld == BaseNow - MonthDuration
DEdge == (BaseNow - MonthDuration) + 1
DNew == BaseNow - 1

\* Rows of chii_subject_interests: (uid, subjectID) is the key.
InterestPool ==
  { [uid |-> 1, subjectID |-> 1, doingDateline |-> DNew, updatedAt |-> DOld],
    [uid |-> 2, subjectID |-> 1, doingDateline |-> DEdge, updatedAt |-> DNew],
    [uid |-> 1, subjectID |-> 2, doingDateline |-> DNew, updatedAt |-> DNew],
    [uid |-> 1, subjectID |-> 3, doingDateline |-> DNew, updatedAt |-> DNew],
    [uid |-> 1, subjectID |-> 4, doingDateline |-> DNew, updatedAt |-> DNew],
    [uid |-> 1, subjectID |-> 5, doingDateline |-> DOld, updatedAt |-> DNew],
    [uid |-> 2, subjectID |-> 5, doingDateline |-> DNew, updatedAt |-> DEdge],
    [uid |-> 1, subjectID |-> 6, doingDateline |-> DNew, updatedAt |-> DEdge] }

VARIABLES
  redis,        \* key -> [val, ex]: the value as tokens (<< >> = no such key) and
                \* the seconds it has to live (0 = no expiry)
  interests,    \* rows of chii_subject_interests
  pc,           \* per invocation: the await it is suspended at
  arg,          \* per invocation: subjectType, period, flush
  minDateline,  \* per invocation: now - duration
  data,         \* per invocation: the rows the aggregate query returned
  returned,     \* the invocation that just returned, how, and its arguments
  deleted,      \* per invocation: its flush removed an existing lock entry
  afterExpiry,  \* per invocation: called, without flush, after a lock entry left
                \* for its pair ran out
  lockBy,       \* per lock key: whose SET made the entry now stored ("left": of an
                \* invocation that is gone; "expired": such an entry ran out)
  ranked,       \* per output key: the TrendingItem[] last written to it
  lastRead,     \* the call and result of getTrendingSubjects, right after it ran
  pending,      \* the invocations that hold the rows of their aggregate query and
                \* have not written them yet, in the order of their queries
  outdated,     \* the invocations among them whose query is earlier than the one
                \* whose result the output key of their pair holds
  cache,        \* entity cache key -> [val, ex], the entries of the fetchers in Redis
  table,        \* ids that have a row in the table of the kind fetched
  kind,         \* the entity kind whose fetchers the behaviour calls
  call,         \* the fetcher call in progress or just returned, with what it did
  listCache,    \* list cache key -> [val, ex], the cached pages in Redis
  filter,       \* the SubjectFilter the behaviour asks pages of
  sort,         \* the SubjectSort the behaviour asks pages of
  req           \* the fetchSubjectIDsByFilter call in progress or just returned

\* The state of the trending side (lib/trending/subject.ts).
tvars ==
  << redis, interests, pc, arg, minDateline, data, returned, deleted,
     afterExpiry, lockBy, ranked, lastRead, pending, outdated >>

\* The state of the fetchers (lib/types/fetcher.ts).
fvars == << cache, table, kind, call >>

\* The state of the cached subject lists (fetchSubjectIDsByFilter).
pvars == << listCache, filter, sort, req >>

vars ==
  << redis, interests, pc, arg, minDateline, data, returned, deleted,
     afterExpiry, lockBy, ranked, lastRead, pending, outdated, cache, table,
     kind, call,
     listCache, filter, sort, req >>

\* ------------------------------------------------------------ key space

\* `trending:subjects:${type}:${period}`
getSubjectTrendingKey(type, period) == << "trending", "subjects", type, period >>

\* `lock:${trendingKey}`
lockKey(trendingKey) == << "lock" >> \o trendingKey

TrendingKeys == { getSubjectTrendingKey(t[1], t[2]) : t \in Targets }

Keys == TrendingKeys \cup { lockKey(k) : k \in TrendingKeys }

\* ---------------------------------------------------------------- redis

NoEntry == [val |-> << >>, ex |-> 0]

\* GET: the stored string, null (the empty value here) when the key is missing.
RedisGet(key) == redis[key].val

\* A JavaScript string used as a condition: null and "" are false.
Truthy(s) == s # << >>

\* A SET that drops the expiry: the entry lives until it is deleted.
RedisSetEx_NoExpiry(r, key, value, seconds) ==
  [r EXCEPT ![key] = [val |-> value, ex |-> 0]]

\* SET key value EX seconds
RedisSetEx(r, key, value, seconds) ==
  [r EXCEPT ![key] = [val |-> value, ex |-> seconds]]

\* SET key value: the key is stored without expiry
RedisSet(r, key, value) == [r EXCEPT ![key] = [val |-> value, ex |-> 0]]

\* DEL key
RedisDel(r, key) == [r EXCEPT ![key] = NoEntry]

\* An entry after `seconds` have passed: a key whose time to live ran out is gone.
Aged(e, seconds) ==
  IF e.ex = 0 THEN e
  ELSE IF e.ex > seconds THEN [e EXCEPT !.ex = e.ex - seconds]
  ELSE NoEntry

\* ----------------------------------------------------------------- JSON

\* JSON.stringify of TrendingItem[]: the text as a sequence of tokens.
RECURSIVE JSONItems(_)
JSONItems(ids) ==
  IF ids = << >> THEN << >>
  ELSE << "{", ToString(Head(ids).id), ToString(Head(ids).total), "}" >>
         \o JSONItems(Tail(ids))

JSONStringify(ids) == << "[" >> \o JSONItems(ids) \o << "]" >>

\* The number a decimal token denotes.
ParseNumber(s) == CHOOSE n \in 0..MaxNum : ToString(n) = s

\* JSON.parse of such a text, as TrendingItem[].
JSONParse(text) ==
  [ i \in 1..((Len(text) - 2) \div 4) |->
      [id |-> ParseNumber(text[4 * i - 1]), total |-> ParseNumber(text[4 * i])] ]

\* A slice that takes its second argument for a length counted from the front
\* of the array.
Slice_EndAsLength(s, start, end) ==
  SubSeq(s, start + 1, IF end - start < Len(s) THEN end - start ELSE Len(s))

\* Array.prototype.slice(start, end)
Slice(s, start, end) ==
  LET len == Len(s)
      k == IF start < 0 THEN (IF len + start > 0 THEN len + start ELSE 0)
           ELSE (IF start < len THEN start ELSE len)
      final == IF end < 0 THEN (IF len + end > 0 THEN len + end ELSE 0)
               ELSE (IF end < len THEN end ELSE len)
  IN  SubSeq(s, k + 1, final)

\* ------------------------------------------------------- aggregate query

\* The duration of a period; none (0) for a period without one.
getTrendingPeriodDuration(period) ==
  IF period = "month" THEN MonthDuration ELSE 0

\* let doingDateline = true; false for Book and Music
doingDateline(subjectType) == subjectType \notin {"Book", "Music"}

\* The join without the ban and nsfw conditions of the where clause.
JoinedRows_Unfiltered(subjectType, minDate) ==
  { i \in interests :
      \E s \in chiiSubjects :
        /\ s.id = i.subjectID
        /\ s.typeID = subjectType
        /\ IF subjectType \notin {"Book", "Music"}
           THEN i.doingDateline > minDate
           ELSE i.updatedAt > minDate }

\* interests inner join subjects, under the where clause
JoinedRows(subjectType, minDate) ==
  { i \in interests :
      \E s \in chiiSubjects :
        /\ s.id = i.subjectID
        /\ s.typeID = subjectType
        /\ s.ban # 1
        /\ s.nsfw = FALSE
        /\ IF doingDateline(subjectType)
           THEN i.doingDateline > minDate
           ELSE i.updatedAt > minDate }

\* group by subject id, selecting the id and count(id)
GroupedRows(subjectType, minDate) ==
  LET rows == JoinedRows(subjectType, minDate)
  IN  { [subjectID |-> id,
         total |-> Cardinality({ i \in rows : i.subjectID = id })] :
        id \in { i.subjectID : i \in rows } }

\* order by count desc: every order of the groups that is descending in the
\* count (the database breaks ties as it likes)
OrderedRows(groups) ==
  { o \in [1..Cardinality(groups) -> groups] :
      /\ \A i, j \in DOMAIN o : i # j => o[i] # o[j]
      /\ \A i, j \in DOMAIN o : i < j => o[i].total >= o[j].total }

\* limit n
Limit(rows, n) == SubSeq(rows, 1, IF Len(rows) < n THEN Len(rows) ELSE n)

\* The results the select of updateTrendingSubjects can return.
AggregateQuery(subjectType, minDate) ==
  { Limit(o, QueryLimit) : o \in OrderedRows(GroupedRows(subjectType, minDate)) }

\* ids.push({ id: item.subjectID, total: item.total })
TrendingItems(rows) ==
  [ i \in DOMAIN rows |-> [id |-> rows[i].subjectID, total |-> rows[i].total] ]

\* ------------------------------------------------------------ invocations

TKey(p) == getSubjectTrendingKey(arg[p].subjectType, arg[p].period)

\* A lock key made from the kind alone, whatever the period.
LKey_OfKind(p) == lockKey(getSubjectTrendingKey(arg[p].subjectType, "month"))

LKey(p) == lockKey(TKey(p))

NoArg == [subjectType |-> "", period |-> "", flush |-> FALSE]
NoReturn == [who |-> "", how |-> "", arg |-> NoArg]
NoRead ==
  [called |-> FALSE, subjectType |-> "", period |-> "", limit |-> 0,
   offset |-> 0, result |-> << >>]

\* ---------------------------------------------------- fetchers: the kinds

\* The cached fetchers of lib/types/fetcher.ts, by the kind of entity.
Kinds ==
  { "user", "slimSubject", "subject", "subjectTopic", "episode", "character",
    "person", "index", "group", "groupTopic", "blog" }

\* Kinds with a fetch...ByID.
HasSingle(k) == k \notin {"subjectTopic", "groupTopic"}

\* Kinds with a fetch...ByIDs.
HasBatch(k) == k \notin {"index", "blog"}

\* Kinds whose fetchers take allowNsfw and test `!allowNsfw && slim.nsfw`.
FiltersNsfw(k) == k \in {"slimSubject", "subject", "character", "person", "group"}

\* Kinds whose table has a ban column.
HasBanFlag(k) ==
  k \in {"slimSubject", "subject", "episode", "character", "person", "index"}

\* Kinds whose fetch...ByID selects with op.ne(ban, 1).
BanSingle(k) ==
  k \in {"slimSubject", "subject", "episode", "character", "person", "index"}

\* Kinds whose fetch...ByIDs selects with op.ne(ban, 1).
BanBatch(k) == k \in {"slimSubject", "subject", "person"}

\* Kinds whose fetch...ByIDs starts with `if (ids.length === 0) return {}` and
\* `ids = lo.uniq(ids)`.
ShortCircuits(k) ==
  k \in {"user", "slimSubject", "subject", "character", "person", "group"}

\* Kinds whose fetch...ByIDs selects only `if (missing.length > 0)`.
GuardsQuery(k) == k # "user"

\* The seconds to live of a cache entry of the kind.
CacheEX(k) == IF k \in {"subjectTopic", "groupTopic"} THEN TopicEX ELSE ONE_MONTH

\* The ids of the entities.
EntityIds == {1, 2, 3}

\* The users who ask for blog entries: the owner 1, a friend 2 of the owner,
\* someone else 3.
Uids == {1, 2, 3}

\* isFriends(owner, uid)
isFriends(owner, uid) == << owner, uid >> \in { << 1, 2 >> }

\* The row of id in the table of kind k: entity 2 is banned (where the table
\* has the column), entity 3 is NSFW (in a kind with the flag) and, as a blog
\* entry, not public; blog entries belong to user 1.
StoreRow(k, id) ==
  [id |-> id,
   ban |-> IF HasBanFlag(k) /\ id = 2 THEN 1 ELSE 0,
   nsfw |-> FiltersNsfw(k) /\ id = 3,
   public |-> ~(k = "blog" /\ id = 3),
   uid |-> 1]

\* convert.toSlim...(row): the response record of a row.
Convert(row) ==
  [id |-> row.id, nsfw |-> row.nsfw, public |-> row.public, uid |-> row.uid]

\* The cache key of an entity: get...CacheKey(id).
CacheKey(k, id) == << k, id >>

\* The keys of the entities of one kind.
CacheKeys(k) == { CacheKey(k, id) : id \in EntityIds }

\* The visibility options of a request: allowNsfw, and the uid that asks for a
\* blog entry.
NoOpts == [allowNsfw |-> FALSE, uid |-> 0]

Options(k) ==
  IF FiltersNsfw(k) THEN { [allowNsfw |-> b, uid |-> 0] : b \in BOOLEAN }
  ELSE IF k = "blog" THEN { [allowNsfw |-> FALSE, uid |-> u] : u \in Uids }
  ELSE { NoOpts }

\* A visibility test that knows the NSFW flag alone.
Hidden_NsfwOnly(k, rec, opts) == FiltersNsfw(k) /\ ~opts.allowNsfw /\ rec.nsfw

\* The record is kept from the request: `!allowNsfw && slim.nsfw`, and for a
\* blog entry `!slim.public && slim.uid !== uid && !isFriend`.
Hidden(k, rec, opts) ==
  \/ FiltersNsfw(k) /\ ~opts.allowNsfw /\ rec.nsfw
  \/ k = "blog" /\ ~rec.public /\ rec.uid # opts.uid /\ ~isFriends(rec.uid, opts.uid)

\* JSON.stringify of a response record, as tokens.
JSONStringifyRecord(rec) ==
  << "{", ToString(rec.id), IF rec.nsfw THEN "true" ELSE "false",
     IF rec.public THEN "true" ELSE "false", ToString(rec.uid), "}" >>

\* JSON.parse of such a text.
JSONParseRecord(text) ==
  [id |-> ParseNumber(text[2]), nsfw |-> text[3] = "true",
   public |-> text[4] = "true", uid |-> ParseNumber(text[5])]

\* No fetcher call yet.
NoCall ==
  [pc |-> "idle", op |-> "", input |-> << >>, ids |-> << >>, opts |-> NoOpts,
   missing |-> << >>, found |-> << >>, result |-> << >>, how |-> "",
   gets |-> 0, selects |-> << >>, wrote |-> {}, store |-> {}, err |-> "",
   left |-> {}]

\* ------------------------------------------------ subject lists: the data

SubjectIds == 1..MaxSubject

\* The row of subject id in chii_subjects joined with chii_subject_fields:
\* subject 5 is banned, 6 is NSFW, 7 has no rank, 8 is a book; the columns
\* the sorts use have no two equal values.
SubjectRow(id) ==
  [id |-> id,
   typeID |-> IF id = 8 THEN "Book" ELSE "Anime",
   ban |-> IF id = 5 THEN 1 ELSE 0,
   nsfw |-> id = 6,
   platform |-> 1 + (id % 2),
   series |-> id = 4,
   year |-> IF id <= 3 THEN 2020 ELSE 2019,
   month |-> 1 + (id % 2),
   rank |-> IF id = 7 THEN 0 ELSE MaxSubject + 1 - id,
   collect |-> (id * 11) % (MaxSubject + 1),
   date |-> (id * 13) % (MaxSubject + 1),
   name |-> (id * 17) % (MaxSubject + 1)]

\* enum SubjectSort
Sorts == { "rank", "trends", "collects", "date", "title" }

\* A SubjectFilter with the type alone (0, FALSE and << >> stand for a field
\* that is not set).
PlainFilter ==
  [type |-> "Anime", nsfw |-> FALSE, cat |-> 0, series |-> FALSE, year |-> 0,
   month |-> 0, tags |-> << >>]

\* The filters callers pass: the type alone; a tag, written in full-width
\* letters; a tag no index row has; a category and year, NSFW allowed.
Filters ==
  { PlainFilter,
    [PlainFilter EXCEPT !.tags = << "moe (full-width)" >>],
    [PlainFilter EXCEPT !.tags = << "rare" >>],
    [PlainFilter EXCEPT !.nsfw = TRUE, !.cat = 1, !.year = 2019] }

Pages == 1..MaxPage

\* t.normalize('NFKC'): full-width letters become their plain forms.
NormalizeNFKC(t) == IF t = "moe (full-width)" THEN "moe" ELSE t

\* Rows of chii_tag_index: id, name, cat, type.
chiiTagIndex ==
  { [id |-> 1, name |-> "moe", cat |-> "subject", type |-> "Anime"],
    [id |-> 2, name |-> "moe", cat |-> "subject", type |-> "Book"],
    [id |-> 3, name |-> "moe", cat |-> "meta", type |-> "Anime"] }

\* Rows of chii_tag_list: tagID, mainID, cat, type.
chiiTagList ==
  { [tagID |-> 1, mainID |-> m, cat |-> "subject", type |-> "Anime"] :
      m \in {1, 2, 3, 5, 6, 9} }
    \cup { [tagID |-> 2, mainID |-> 8, cat |-> "subject", type |-> "Book"],
           [tagID |-> 3, mainID |-> 10, cat |-> "meta", type |-> "Anime"] }

\* The TrendingItem[] an aggregation can have written for the type: every
\* subject, a few subjects, or none.
LongRank ==
  [i \in 1..MaxSubject |->
     [id |-> (i * 7) % (MaxSubject + 1), total |-> MaxSubject + 1 - i]]

ShortRank ==
  << [id |-> 9, total |-> 4], [id |-> 5, total |-> 3], [id |-> 3, total |-> 2],
     [id |-> 12, total |-> 2], [id |-> 1, total |-> 1] >>

RankLists == { LongRank, ShortRank, << >> }

\* getTrendingSubjectKey(type, period) of lib/trending/cache.ts: the key the
\* aggregation writes.
getTrendingSubjectKey(type, period) == getSubjectTrendingKey(type, period)

\* getSubjectListCacheKey(filter, sort, page)
getSubjectListCacheKey(f, s, page) == << "list", f, s, page >>

\* The keys of the pages of one filter and sort.
ListKeys(f, s) == { getSubjectListCacheKey(f, s, p) : p \in Pages }

\* { data: [], total: 0 }
EmptyPage == [data |-> << >>, total |-> 0]

\* JSON.stringify of an IPaged<number>, as tokens.
JSONStringifyPage(result) ==
  << "{", "[" >> \o [i \in DOMAIN result.data |-> ToString(result.data[i])]
    \o << "]", ToString(result.total), "}" >>

\* JSON.parse of such a text.
JSONParsePage(text) ==
  [data |-> [i \in 1..(Len(text) - 5) |-> ParseNumber(text[i + 2])],
   total |-> ParseNumber(text[Len(text) - 1])]

\* No fetchSubjectIDsByFilter call yet. ids is filter.ids, when hasIds says it
\* is set; queries, rank, wrote and lapsed record what the call did: the store
\* queries it awaited, the trending ids it resolved, the seconds to live of
\* its cache write (0: none), the pages whose entries ran out at the last
\* expiry before it, and the page of the call just before it when that one
\* returned the empty page early (retry, 0: none).
NoReq ==
  [pc |-> "idle", page |-> 0, hasIds |-> FALSE, ids |-> << >>, tagIDs |-> {},
   count |-> 0, total |-> 0, result |-> EmptyPage, how |-> "", gets |-> 0,
   queries |-> << >>, rank |-> << >>, wrote |-> 0, lapsed |-> {}, retry |-> 0]

\* The subject lists before their first call.
PagesIdle ==
  /\ listCache = [k \in ListKeys(PlainFilter, "rank") |-> NoEntry]
  /\ filter = PlainFilter
  /\ sort = "rank"
  /\ req = NoReq

\* The fetchers before their first call.
FetchersIdle ==
  /\ cache = [c \in CacheKeys("subject") |-> NoEntry]
  /\ table = EntityIds
  /\ kind = "subject"
  /\ call = NoCall

\* The trending side before its first call.
InvocationsIdle ==
  /\ interests = InterestPool
  /\ pc = [p \in Procs |-> "idle"]
  /\ arg = [p \in Procs |-> NoArg]
  /\ minDateline = [p \in Procs |-> 0]
  /\ data = [p \in Procs |-> << >>]
  /\ returned = NoReturn
  /\ deleted = [p \in Procs |-> FALSE]
  /\ afterExpiry = [p \in Procs |-> FALSE]
  /\ lockBy = [k \in TrendingKeys |-> "none"]
  /\ ranked = [k \in TrendingKeys |-> << >>]
  /\ lastRead = NoRead
  /\ pending = << >>
  /\ outdated = {}

TrendingIdle ==
  /\ redis = [k \in Keys |-> NoEntry]
  /\ InvocationsIdle

\* Any filter and sort, an empty list cache, and for the type of the filter
\* no trending list yet or one an aggregation wrote.
PageInit ==
  /\ \E e \in {NoEntry} \cup { [val |-> JSONStringify(l), ex |-> 0] : l \in RankLists } :
       redis = [k \in Keys |->
                  IF k = getTrendingSubjectKey("Anime", "month") THEN e ELSE NoEntry]
  /\ InvocationsIdle
  /\ FetchersIdle
  /\ filter \in Filters
  /\ sort \in Sorts
  /\ listCache = [k \in ListKeys(filter, sort) |-> NoEntry]
  /\ req = NoReq

Init == TrendingIdle /\ FetchersIdle /\ PagesIdle

\* Any kind, an empty cache, and a table that has every row or lacks row 1.
FetchInit ==
  /\ TrendingIdle
  /\ kind \in Kinds
  /\ cache = [c \in CacheKeys(kind) |-> NoEntry]
  /\ table \in { EntityIds, EntityIds \ {1} }
  /\ call = NoCall
  /\ PagesIdle

\* The invocation returns (how = "noop", "invalid", "done") or throws
\* (how = "error"): its arguments and locals are dropped.
Return(p, how) ==
  /\ pc' = [pc EXCEPT ![p] = "idle"]
  /\ returned' = [who |-> p, how |-> how, arg |-> arg[p]]
  /\ arg' = [arg EXCEPT ![p] = NoArg]
  /\ minDateline' = [minDateline EXCEPT ![p] = 0]
  /\ data' = [data EXCEPT ![p] = << >>]
  /\ deleted' = [deleted EXCEPT ![p] = FALSE]
  /\ afterExpiry' = [afterExpiry EXCEPT ![p] = FALSE]

\* The invocation goes on to its next await.
Goto(p, label) ==
  /\ pc' = [pc EXCEPT ![p] = label]
  /\ returned' = NoReturn

\* updateTrendingSubjects(subjectType, period, flush) is called.
Call(p, subjectType, period, flush) ==
  /\ pc[p] = "idle"
  /\ Goto(p, IF flush THEN "flush" ELSE "check")
  /\ arg' = [arg EXCEPT ![p] =
               [subjectType |-> subjectType, period |-> period, flush |-> flush]]
  /\ afterExpiry' =
       [afterExpiry EXCEPT ![p] =
          ~flush /\ lockBy[getSubjectTrendingKey(subjectType, period)] = "expired"]
  /\ lastRead' = NoRead
  /\ UNCHANGED << redis, interests, minDateline, data, deleted, lockBy, ranked, pending, outdated, fvars, pvars >>

\* A flush that deletes nothing.
FlushLock_KeepsLock(p) ==
  /\ pc[p] = "flush"
  /\ Goto(p, "check")
  /\ lastRead' = NoRead
  /\ UNCHANGED << redis, interests, arg, minDateline, data, deleted, afterExpiry,
                  lockBy, ranked, pending, outdated, fvars, pvars >>

\* if (flush) await redis.del(lockKey)
FlushLock(p) ==
  /\ pc[p] = "flush"
  /\ redis' = RedisDel(redis, LKey(p))
  /\ deleted' = [deleted EXCEPT ![p] = Truthy(RedisGet(LKey(p)))]
  /\ lockBy' = [lockBy EXCEPT ![TKey(p)] = "none"]
  /\ Goto(p, "check")
  /\ lastRead' = NoRead
  /\ UNCHANGED << interests, arg, minDateline, data, afterExpiry, ranked, pending, outdated, fvars, pvars >>

\* A check that does not look at the lock entry.
CheckLock_IgnoresLock(p) ==
  /\ pc[p] = "check"
  /\ Goto(p, "lock")
  /\ lastRead' = NoRead
  /\ UNCHANGED << redis, interests, arg, minDateline, data, deleted, afterExpiry,
                  lockBy, ranked, pending, outdated, fvars, pvars >>

\* if (await redis.get(lockKey)) return
CheckLock(p) ==
  /\ pc[p] = "check"
  /\ IF Truthy(RedisGet(LKey(p)))
     THEN Return(p, "noop")
     ELSE /\ Goto(p, "lock")
          /\ UNCHANGED << arg, minDateline, data, deleted, afterExpiry >>
  /\ lastRead' = NoRead
  /\ UNCHANGED << redis, interests, lockBy, ranked, pending, outdated, fvars, pvars >>

\* A SetLock without the test of the duration: a period without duration
\* counts as one of duration 0.
SetLock_ZeroDuration(p) ==
  /\ pc[p] = "lock"
  /\ redis' = RedisSetEx(redis, LKey(p), << "1" >>, LockEX)
  /\ \E now \in NowValues :
       minDateline' = [minDateline EXCEPT ![p] =
                         now - getTrendingPeriodDuration(arg[p].period)]
  /\ Goto(p, "query")
  /\ lockBy' = [lockBy EXCEPT ![TKey(p)] = p]
  /\ lastRead' = NoRead
  /\ UNCHANGED << interests, arg, data, deleted, afterExpiry, ranked, pending, outdated, fvars, pvars >>

\* await redis.set(lockKey, 1, 'EX', 3600), then up to the select:
\* now = Date.now(); duration; if (!duration) return; minDateline = now - duration
SetLock(p) ==
  /\ pc[p] = "lock"
  /\ redis' = RedisSetEx(redis, LKey(p), << "1" >>, LockEX)
  /\ LET duration == getTrendingPeriodDuration(arg[p].period)
     IN  IF duration = 0
         THEN /\ Return(p, "invalid")
              /\ lockBy' = [lockBy EXCEPT ![TKey(p)] = "left"]
         ELSE /\ \E now \in NowValues :
                   minDateline' = [minDateline EXCEPT ![p] = now - duration]
              /\ Goto(p, "query")
              /\ lockBy' = [lockBy EXCEPT ![TKey(p)] = p]
              /\ UNCHANGED << arg, data, deleted, afterExpiry >>
  /\ lastRead' = NoRead
  /\ UNCHANGED << interests, ranked, pending, outdated, fvars, pvars >>

\* const data = await db.select(...).execute(): it returns rows (minDateline
\* is not used after it)
QueryStore(p) ==
  /\ pc[p] = "query"
  /\ \E rows \in AggregateQuery(arg[p].subjectType, minDateline[p]) :
       data' = [data EXCEPT ![p] = rows]
  /\ minDateline' = [minDateline EXCEPT ![p] = 0]
  /\ pending' = Append(pending, p)
  /\ Goto(p, "save")
  /\ lastRead' = NoRead
  /\ UNCHANGED << redis, interests, arg, deleted, afterExpiry, lockBy, ranked,
                  outdated, fvars, pvars >>

\* A failure of the select that also drops the list of the pair.
QueryFails_DropsOutput(p) ==
  /\ pc[p] = "query"
  /\ redis' = RedisDel(redis, TKey(p))
  /\ Return(p, "error")
  /\ lockBy' = [lockBy EXCEPT ![TKey(p)] = IF @ = p THEN "left" ELSE @]
  /\ lastRead' = NoRead
  /\ UNCHANGED << interests, ranked, pending, outdated, fvars, pvars >>

\* const data = await db.select(...).execute(): it throws
QueryFails(p) ==
  /\ pc[p] = "query"
  /\ Return(p, "error")
  /\ lockBy' = [lockBy EXCEPT ![TKey(p)] = IF @ = p THEN "left" ELSE @]
  /\ lastRead' = NoRead
  /\ UNCHANGED << redis, interests, ranked, pending, outdated, fvars, pvars >>

\* The invocations of the pair of p that hold the rows of a query made before
\* the query of p.
Earlier(p) ==
  { q \in Procs \ {p} :
      /\ TKey(q) = TKey(p)
      /\ \E i, j \in DOMAIN pending : i < j /\ pending[i] = q /\ pending[j] = p }

\* await redis.set(trendingKey, JSON.stringify(ids)) (data and ids are not
\* used after it)
SaveTrending(p) ==
  /\ pc[p] = "save"
  /\ redis' = RedisSet(redis, TKey(p), JSONStringify(TrendingItems(data[p])))
  /\ ranked' = [ranked EXCEPT ![TKey(p)] = TrendingItems(data[p])]
  /\ data' = [data EXCEPT ![p] = << >>]
  /\ pending' = SelectSeq(pending, LAMBDA q : q # p)
  /\ outdated' = (outdated \ {p}) \cup Earlier(p)
  /\ Goto(p, "unlock")
  /\ lastRead' = NoRead
  /\ UNCHANGED << interests, arg, minDateline, deleted, afterExpiry, lockBy, fvars, pvars >>

\* A return without the release of the lock.
Unlock_KeepsLock(p) ==
  /\ pc[p] = "unlock"
  /\ lockBy' = [lockBy EXCEPT ![TKey(p)] = "left"]
  /\ Return(p, "done")
  /\ lastRead' = NoRead
  /\ UNCHANGED << redis, interests, ranked, pending, outdated, fvars, pvars >>

\* await redis.del(lockKey), and the function returns
Unlock(p) ==
  /\ pc[p] = "unlock"
  /\ redis' = RedisDel(redis, LKey(p))
  /\ lockBy' = [lockBy EXCEPT ![TKey(p)] = "none"]
  /\ Return(p, "done")
  /\ lastRead' = NoRead
  /\ UNCHANGED << interests, ranked, pending, outdated, fvars, pvars >>

\* The awaits of an invocation, in turn.
Step(p) ==
  \/ FlushLock(p)
  \/ CheckLock(p)
  \/ SetLock(p)
  \/ QueryStore(p)
  \/ QueryFails(p)
  \/ SaveTrending(p)
  \/ Unlock(p)

\* An invocation called with one of the pairs in targets.
updateTrendingSubjects(p, targets) ==
  \/ \E t \in targets, f \in BOOLEAN : Call(p, t[1], t[2], f)
  \/ Step(p)

\* A reader that, on a miss, takes the lock of the pair as a recomputation
\* would.
getTrendingSubjects_LocksOnMiss(subjectType, period, limit, offset) ==
  LET key == getSubjectTrendingKey(subjectType, period)
      text == RedisGet(key)
      result == IF ~Truthy(text) THEN << >>
                ELSE Slice(JSONParse(text), offset, offset + limit)
  IN  /\ lastRead' = [called |-> TRUE, subjectType |-> subjectType,
                      period |-> period, limit |-> limit, offset |-> offset,
                      result |-> result]
      /\ returned' = NoReturn
      /\ redis' = IF Truthy(text) THEN redis
                  ELSE RedisSetEx(redis, lockKey(key), << "1" >>, LockEX)
      /\ UNCHANGED << interests, pc, arg, minDateline, data, deleted,
                      afterExpiry, lockBy, ranked, pending, outdated, fvars, pvars >>

\* getTrendingSubjects(subjectType, period, limit, offset)
getTrendingSubjects(subjectType, period, limit, offset) ==
  LET text == RedisGet(getSubjectTrendingKey(subjectType, period))
      result == IF ~Truthy(text) THEN << >>
                ELSE Slice(JSONParse(text), offset, offset + limit)
  IN  /\ lastRead' = [called |-> TRUE, subjectType |-> subjectType,
                      period |-> period, limit |-> limit, offset |-> offset,
                      result |-> result]
      /\ returned' = NoReturn
      /\ UNCHANGED << redis, interests, pc, arg, minDateline, data, deleted,
                      afterExpiry, lockBy, ranked, pending, outdated, fvars, pvars >>

Read ==
  \E t \in Targets, limit \in 0..MaxLimit, offset \in 0..MaxOffset :
    getTrendingSubjects(t[1], t[2], limit, offset)

\* Redis time passes: times to live run down and expired keys disappear.
Tick ==
  /\ redis' = [k \in Keys |-> Aged(redis[k], TickStep)]
  /\ lockBy' = [k \in TrendingKeys |->
                  IF Truthy(redis'[lockKey(k)].val) THEN lockBy[k]
                  ELSE IF lockBy[k] = "left" THEN "expired"
                  ELSE IF lockBy[k] = "expired" THEN "expired"
                  ELSE "none"]
  /\ returned' = NoReturn
  /\ lastRead' = NoRead
  /\ UNCHANGED << interests, pc, arg, minDateline, data, deleted, afterExpiry,
                  ranked, pending, outdated, fvars, pvars >>

\* -------------------------------------------------------------- fetchers

\* lo.uniq(ids): the first occurrence of every id, in order
RECURSIVE Uniq(_)
Uniq(ids) ==
  IF ids = << >> THEN << >>
  ELSE LET init == Uniq(SubSeq(ids, 1, Len(ids) - 1))
           last == ids[Len(ids)]
       IN  IF \E i \in DOMAIN init : init[i] = last THEN init
           ELSE Append(init, last)

\* The elements of a sequence.
Range(seq) == { seq[i] : i \in DOMAIN seq }

\* redis.setex(key, seconds, value)
RedisSetexCache(c, key, seconds, value) ==
  [c EXCEPT ![key] = [val |-> value, ex |-> seconds]]

\* The cached text of entity id (null, the empty value here, on a miss).
Cached(id) == cache[CacheKey(kind, id)].val

\* The fetcher returns value.
FetchReturn(c, value) ==
  [c EXCEPT !.pc = "done", !.how = "returned", !.result = value,
            !.missing = << >>, !.found = << >>]

\* The fetcher throws: the promise rejects with the error of the cache
\* ("cache"), of the store ("store") or of the query builder ("query"), and
\* the locals are dropped.
FetchThrow(c, err) ==
  [c EXCEPT !.pc = "done", !.how = "threw", !.err = err, !.result = << >>,
            !.missing = << >>, !.found = << >>]

\* What the call before this one left in the cache when a cache write failed
\* under it.
LeftBehind == IF call.pc = "done" /\ call.err = "cache" THEN call.wrote ELSE {}

\* fetch...ByID(id, opts) is called.
FetchCallByID(id, opts) ==
  /\ call.pc \in {"idle", "done"}
  /\ HasSingle(kind)
  /\ call' = [NoCall EXCEPT !.pc = "get", !.op = "id", !.input = << id >>,
                            !.ids = << id >>, !.opts = opts,
                            !.store = table]
  /\ UNCHANGED << cache, table, kind, tvars, pvars >>

\* fetch...ByIDs(ids, opts) is called: up to the first await
\* (if (ids.length === 0) return {}; ids = lo.uniq(ids), where the kind has them)
FetchCallByIDs(ids, opts) ==
  /\ call.pc \in {"idle", "done"}
  /\ HasBatch(kind)
  /\ call' =
       IF ShortCircuits(kind) /\ Len(ids) = 0
       THEN FetchReturn([NoCall EXCEPT !.op = "ids", !.opts = opts, !.store = table],
                        << >>)
       ELSE [NoCall EXCEPT !.pc = "get", !.op = "ids", !.input = ids,
                           !.left = LeftBehind,
                           !.ids = IF ShortCircuits(kind) THEN Uniq(ids) ELSE ids,
                           !.opts = opts, !.store = table]
  /\ UNCHANGED << cache, table, kind, tvars, pvars >>

\* A hit branch that returns the parsed record whatever the request allows.
CacheGet_SkipsFilter ==
  /\ call.pc = "get" /\ call.op = "id"
  /\ LET id == call.ids[1]
         c == [call EXCEPT !.gets = @ + 1]
     IN  call' =
           IF Truthy(Cached(id))
           THEN FetchReturn(c, (id :> JSONParseRecord(Cached(id))))
           ELSE [c EXCEPT !.pc = "select"]
  /\ UNCHANGED << cache, table, kind, tvars, pvars >>

\* const cached = await redis.get(key), and the hit branch:
\* parse, the visibility test, return
CacheGet ==
  /\ call.pc = "get" /\ call.op = "id"
  /\ LET id == call.ids[1]
         c == [call EXCEPT !.gets = @ + 1]
     IN  call' =
           IF Truthy(Cached(id))
           THEN LET rec == JSONParseRecord(Cached(id))
                IN  FetchReturn(c, IF Hidden(kind, rec, call.opts) THEN << >>
                                   ELSE (id :> rec))
           ELSE [c EXCEPT !.pc = "select"]
  /\ UNCHANGED << cache, table, kind, tvars, pvars >>

\* A loop over the ids that puts every hit in the result.
CacheMGet_ShowsAll ==
  /\ call.pc = "get" /\ call.op = "ids" /\ call.ids # << >>
  /\ LET ids == call.ids
         hit(id) == Truthy(Cached(id))
         missing == SelectSeq(ids, LAMBDA id : ~hit(id))
         c == [call EXCEPT !.gets = @ + 1,
                           !.result = [id \in { i \in Range(ids) : hit(i) }
                                         |-> JSONParseRecord(Cached(id))]]
     IN  call' =
           IF GuardsQuery(kind) /\ missing = << >>
           THEN FetchReturn(c, c.result)
           ELSE [c EXCEPT !.pc = "select", !.missing = missing]
  /\ UNCHANGED << cache, table, kind, tvars, pvars >>

\* A loop over the ids that counts a hit the request may not see as missing,
\* so that it is selected and written again.
CacheMGet_RefetchesHidden ==
  /\ call.pc = "get" /\ call.op = "ids" /\ call.ids # << >>
  /\ LET ids == call.ids
         hit(id) == Truthy(Cached(id))
         shown == { id \in Range(ids) :
                      hit(id) /\ ~Hidden(kind, JSONParseRecord(Cached(id)), call.opts) }
         missing == SelectSeq(ids, LAMBDA id : id \notin shown)
         c == [call EXCEPT !.gets = @ + 1,
                           !.result = [id \in shown |-> JSONParseRecord(Cached(id))]]
     IN  call' =
           IF GuardsQuery(kind) /\ missing = << >>
           THEN FetchReturn(c, c.result)
           ELSE [c EXCEPT !.pc = "select", !.missing = missing]
  /\ UNCHANGED << cache, table, kind, tvars, pvars >>

\* const cached = await redis.mget(keys), and the loop over the ids: hits are
\* parsed and, when visible, put in the result; the others are missing
CacheMGet ==
  /\ call.pc = "get" /\ call.op = "ids" /\ call.ids # << >>
  /\ LET ids == call.ids
         hit(id) == Truthy(Cached(id))
         shown == { id \in Range(ids) :
                      hit(id) /\ ~Hidden(kind, JSONParseRecord(Cached(id)), call.opts) }
         missing == SelectSeq(ids, LAMBDA id : ~hit(id))
         c == [call EXCEPT !.gets = @ + 1,
                           !.result = [id \in shown |-> JSONParseRecord(Cached(id))]]
     IN  call' =
           IF GuardsQuery(kind) /\ missing = << >>
           THEN FetchReturn(c, c.result)
           ELSE [c EXCEPT !.pc = "select", !.missing = missing]
  /\ UNCHANGED << cache, table, kind, tvars, pvars >>

\* await redis.mget([]): the MGET of no keys is sent; Redis answers with an
\* error, which the call throws, or the client answers with no values
CacheMGetNoKeys ==
  /\ call.pc = "get" /\ call.op = "ids" /\ call.ids = << >>
  /\ \/ call' = FetchThrow([call EXCEPT !.gets = @ + 1], "cache")
     \/ call' = FetchReturn([call EXCEPT !.gets = @ + 1], << >>)
  /\ UNCHANGED << cache, table, kind, tvars, pvars >>

\* The rows a select by ids returns, with op.ne(ban, 1) or without.
SelectRows(ids, noBan) ==
  { StoreRow(kind, id) : id \in { i \in ids \cap table :
                                    noBan => StoreRow(kind, i).ban # 1 } }

\* The orders in which the database can return a set of rows.
Orders(set) ==
  { o \in [1..Cardinality(set) -> set] :
      \A i, j \in 1..Cardinality(set) : i # j => o[i] # o[j] }

\* A select by id that caches the absence of the row.
SelectByID_CachesAbsence ==
  /\ call.pc = "select" /\ call.op = "id"
  /\ LET id == call.ids[1]
         selected == SelectRows({id}, BanSingle(kind))
         c == [call EXCEPT !.selects = Append(@, {id})]
     IN  /\ call' =
              IF selected = {} THEN FetchReturn(c, << >>)
              ELSE [c EXCEPT !.pc = "write",
                             !.found = << Convert(StoreRow(kind, id)) >>]
         /\ cache' =
              IF selected = {}
              THEN RedisSetexCache(cache, CacheKey(kind, id), CacheEX(kind), << "null" >>)
              ELSE cache
  /\ UNCHANGED << table, kind, tvars, pvars >>

\* const [data] = await db.select()...where(id = ...): no row: return;
\* else convert
SelectByID ==
  /\ call.pc = "select" /\ call.op = "id"
  /\ LET id == call.ids[1]
         selected == SelectRows({id}, BanSingle(kind))
         c == [call EXCEPT !.selects = Append(@, {id})]
     IN  call' =
           IF selected = {} THEN FetchReturn(c, << >>)
           ELSE [c EXCEPT !.pc = "write",
                          !.found = << Convert(StoreRow(kind, id)) >>]
  /\ UNCHANGED << cache, table, kind, tvars, pvars >>

\* const data = await db.select()...where(inArray(id, missing) ...)
SelectByIDs ==
  /\ call.pc = "select" /\ call.op = "ids" /\ call.missing # << >>
  /\ \E selected \in Orders(SelectRows(Range(call.missing), BanBatch(kind))) :
       LET c == [call EXCEPT !.selects = Append(@, Range(call.missing)),
                             !.missing = << >>]
       IN  call' =
             IF selected = << >> THEN FetchReturn(c, c.result)
             ELSE [c EXCEPT !.pc = "write",
                            !.found = [i \in DOMAIN selected |-> Convert(selected[i])]]
  /\ UNCHANGED << cache, table, kind, tvars, pvars >>

\* The select of fetchSlimUsersByIDs when nothing is missing,
\* where(inArray(id, [])): the query builder throws on the empty list, or the
\* query is sent and no row matches
SelectNoIDs ==
  /\ call.pc = "select" /\ call.op = "ids" /\ call.missing = << >>
  /\ \/ call' = FetchThrow(call, "query")
     \/ call' = FetchReturn([call EXCEPT !.selects = Append(@, {})], call.result)
  /\ UNCHANGED << cache, table, kind, tvars, pvars >>

\* A failing select that hands back the hits collected so far.
SelectFails_ReturnsHits ==
  /\ call.pc = "select"
  /\ call' = FetchReturn([call EXCEPT !.err = "store"], call.result)
  /\ UNCHANGED << cache, table, kind, tvars, pvars >>

\* await db.select()... rejects: the store failed, the fetcher throws
SelectFails ==
  /\ call.pc = "select"
  /\ call' = FetchThrow(call, "store")
  /\ UNCHANGED << cache, table, kind, tvars, pvars >>

\* A failing write that leaves a half-filled record under the key.
CacheSetexFails_LeavesDraft ==
  /\ call.pc = "write"
  /\ LET rec == Head(call.found)
     IN  cache' = RedisSetexCache(cache, CacheKey(kind, rec.id), CacheEX(kind),
                                  JSONStringifyRecord([rec EXCEPT !.uid = 0]))
  /\ call' = FetchThrow(call, "cache")
  /\ UNCHANGED << table, kind, tvars, pvars >>

\* await redis.setex(...) rejects, or the process stops before it: the rows
\* written so far stay in the cache, the others are not written
CacheSetexFails ==
  /\ call.pc = "write"
  /\ call' = FetchThrow(call, "cache")
  /\ UNCHANGED << cache, table, kind, tvars, pvars >>

\* A write that follows the visibility test: only what the request may see is
\* cached.
CacheSetex_VisibleOnly ==
  /\ call.pc = "write"
  /\ LET rec == Head(call.found)
         hidden == Hidden(kind, rec, call.opts)
         value == IF hidden THEN call.result ELSE (rec.id :> rec) @@ call.result
         c == [call EXCEPT !.wrote = IF hidden THEN @ ELSE @ \cup {rec.id},
                           !.found = Tail(@), !.result = value]
     IN  /\ cache' =
              IF hidden THEN cache
              ELSE RedisSetexCache(cache, CacheKey(kind, rec.id), CacheEX(kind),
                                   JSONStringifyRecord(rec))
         /\ call' = IF Tail(call.found) = << >> THEN FetchReturn(c, value) ELSE c
  /\ UNCHANGED << table, kind, tvars, pvars >>

\* await redis.setex(key, TTL, JSON.stringify(item)) of the next converted
\* row, then the visibility test: a visible item goes into the result; after
\* the last row the fetcher returns
CacheSetex ==
  /\ call.pc = "write"
  /\ LET rec == Head(call.found)
         value == IF Hidden(kind, rec, call.opts) THEN call.result
                  ELSE (rec.id :> rec) @@ call.result
         c == [call EXCEPT !.wrote = @ \cup {rec.id}, !.found = Tail(@),
                           !.result = value]
     IN  /\ cache' = RedisSetexCache(cache, CacheKey(kind, rec.id), CacheEX(kind),
                                     JSONStringifyRecord(rec))
         /\ call' = IF Tail(call.found) = << >> THEN FetchReturn(c, value) ELSE c
  /\ UNCHANGED << table, kind, tvars, pvars >>

\* A call that is over is forgotten when something else happens.
Forget(c) == IF c.pc = "done" THEN NoCall ELSE c

\* Time passes for the entity cache: entries whose time to live ran out are gone.
CacheTick ==
  /\ cache' = [c \in DOMAIN cache |-> Aged(cache[c], CacheTickStep)]
  /\ call' = Forget(call)
  /\ UNCHANGED << table, kind, tvars, pvars >>

\* A row is inserted into the table.
StoreInsert ==
  /\ \E id \in EntityIds \ table : table' = table \cup {id}
  /\ call' = Forget(call)
  /\ UNCHANGED << cache, kind, tvars, pvars >>

\* The id sequences callers pass.
RECURSIVE SeqsUpTo(_)
SeqsUpTo(n) ==
  IF n = 0 THEN { << >> }
  ELSE LET shorter == SeqsUpTo(n - 1)
       IN  shorter \cup { Append(q, id) : q \in shorter, id \in EntityIds }

\* The steps of the fetchers of the kind.
Fetch ==
  \/ \E id \in EntityIds, opts \in Options(kind) : FetchCallByID(id, opts)
  \/ \E ids \in SeqsUpTo(MaxIds), opts \in Options(kind) : FetchCallByIDs(ids, opts)
  \/ CacheGet
  \/ CacheMGet
  \/ CacheMGetNoKeys
  \/ SelectByID
  \/ SelectByIDs
  \/ SelectNoIDs
  \/ SelectFails
  \/ CacheSetex
  \/ CacheSetexFails

\* Fetcher calls of one kind, one at a time, over a store that gains rows and a
\* cache that expires.
FetchNext == Fetch \/ CacheTick \/ StoreInsert

FetchSpec == FetchInit /\ [][FetchNext]_vars

\* ---------------------------------------------------------- subject lists

\* The key of a page of the filter and sort of the behaviour.
PageKey(page) == getSubjectListCacheKey(filter, sort, page)

\* op.and(...conditions): the where clause of the count and of the page query
Conditions(f, s, hasIds, ids, row) ==
  /\ row.typeID = f.type
  /\ row.ban # 1
  /\ ~f.nsfw => row.nsfw = FALSE
  /\ f.cat # 0 => row.platform = f.cat
  /\ f.series => row.series = f.series
  /\ f.year # 0 => row.year = f.year
  /\ f.month # 0 => row.month = f.month
  /\ hasIds => row.id \in Range(ids)
  /\ s = "rank" => row.rank # 0

\* The ids of the rows the where clause of the call selects.
Matching ==
  { id \in SubjectIds :
      Conditions(filter, sort, req.hasIds, req.ids, SubjectRow(id)) }

\* find_in_set(id, ids.join(',')): the place of id in the list, from 1; 0 when
\* it is not there
FindInSet(id, ids) ==
  IF \E i \in DOMAIN ids : ids[i] = id
  THEN CHOOSE i \in DOMAIN ids :
         ids[i] = id /\ \A j \in DOMAIN ids : ids[j] = id => i <= j
  ELSE 0

\* A sort of the page query that ranks by the id column.
OrderKey_ById(s, ids, id) == id

\* The value a row is ordered by, ascending: the orderBy of the sort.
OrderKey(s, ids, id) ==
  CASE s = "rank" -> SubjectRow(id).rank
    [] s = "trends" -> FindInSet(id, ids)
    [] s = "collects" -> 0 - SubjectRow(id).collect
    [] s = "date" -> 0 - SubjectRow(id).date
    [] s = "title" -> SubjectRow(id).name

\* The elements of a set in ascending order of their keys.
RECURSIVE OrderBy(_, _)
OrderBy(set, key) ==
  IF set = {} THEN << >>
  ELSE LET first == CHOOSE x \in set : \A y \in set : key[x] <= key[y]
       IN  << first >> \o OrderBy(set \ {first}, key)

\* .limit(limit).offset(offset)
LimitOffset(rows, limit, offset) ==
  SubSeq(rows, offset + 1,
         IF Len(rows) < offset + limit THEN Len(rows) ELSE offset + limit)

\* Math.ceil(count / 24)
CeilDiv(n, d) == (n + d - 1) \div d

\* The page call returns value.
PageReturn(r, value) == [r EXCEPT !.pc = "done", !.how = "returned", !.result = value]

\* The page call throws.
PageThrow(r) == [r EXCEPT !.pc = "done", !.how = "threw", !.result = EmptyPage]

\* The step after the trending list and the cache were looked at:
\* if (filter.tags) ... else the count
AfterIds == IF filter.tags # << >> THEN "tagIndex" ELSE "count"

\* The call r took one of the early returns `return { data: [], total: 0 }`:
\* no trending list, a count of 0, the trending sort without ids.
EarlyReturn(r) ==
  /\ r.pc = "done" /\ r.how = "returned" /\ r.wrote = 0
  /\ ~(r.gets = 1 /\ r.queries = << >>)

\* fetchSubjectIDsByFilter(filter, sort, page) is called.
FetchPageCall(page) ==
  /\ req.pc \in {"idle", "done"}
  /\ req' = [NoReq EXCEPT !.pc = "get", !.page = page, !.lapsed = req.lapsed,
                          !.retry = IF EarlyReturn(req) THEN req.page ELSE 0]
  /\ UNCHANGED << listCache, filter, sort, tvars, fvars >>

\* const cached = await redis.get(cacheKey); if (cached) return JSON.parse(cached)
ListGet ==
  /\ req.pc = "get"
  /\ LET cached == listCache[PageKey(req.page)].val
         r == [req EXCEPT !.gets = @ + 1]
     IN  req' = IF Truthy(cached) THEN PageReturn(r, JSONParsePage(cached))
                ELSE [r EXCEPT !.pc = IF sort = "trends" THEN "trending" ELSE AfterIds]
  /\ UNCHANGED << listCache, filter, sort, tvars, fvars >>

\* A lookup of the trending list that fails when there is none.
ResolveTrending_ThrowsOnMissing ==
  /\ req.pc = "trending"
  /\ LET text == RedisGet(getTrendingSubjectKey(filter.type, "month"))
         r == [req EXCEPT !.gets = @ + 1]
     IN  req' =
           IF ~Truthy(text) THEN PageThrow(r)
           ELSE LET ids == [i \in DOMAIN JSONParse(text) |-> JSONParse(text)[i].id]
                IN  [r EXCEPT !.pc = AfterIds, !.hasIds = TRUE, !.ids = ids,
                              !.rank = ids]
  /\ UNCHANGED << listCache, filter, sort, tvars, fvars >>

\* A lookup of the trending list that caches the empty page when there is no
\* list.
ResolveTrending_CachesEmpty ==
  /\ req.pc = "trending"
  /\ LET text == RedisGet(getTrendingSubjectKey(filter.type, "month"))
         r == [req EXCEPT !.gets = @ + 1]
         seconds == IF req.page = 1 THEN FirstPageEX ELSE OtherPageEX
     IN  IF ~Truthy(text)
         THEN /\ req' = PageReturn(r, EmptyPage)
              /\ listCache' = RedisSetexCache(listCache, PageKey(req.page), seconds,
                                              JSONStringifyPage(EmptyPage))
         ELSE LET ids == [i \in DOMAIN JSONParse(text) |-> JSONParse(text)[i].id]
              IN  /\ req' = [r EXCEPT !.pc = AfterIds, !.hasIds = TRUE, !.ids = ids,
                                      !.rank = ids]
                  /\ listCache' = listCache
  /\ UNCHANGED << filter, sort, tvars, fvars >>

\* const data = await redis.get(trendingKey); if (!data) return the empty
\* page; filter.ids = the ids of the parsed items
ResolveTrending ==
  /\ req.pc = "trending"
  /\ LET text == RedisGet(getTrendingSubjectKey(filter.type, "month"))
         r == [req EXCEPT !.gets = @ + 1]
     IN  req' =
           IF ~Truthy(text) THEN PageReturn(r, EmptyPage)
           ELSE LET ids == [i \in DOMAIN JSONParse(text) |-> JSONParse(text)[i].id]
                IN  [r EXCEPT !.pc = AfterIds, !.hasIds = TRUE, !.ids = ids,
                              !.rank = ids]
  /\ UNCHANGED << listCache, filter, sort, tvars, fvars >>

\* const tagIndexes = await db.select({id}).from(chiiTagIndex).where(cat,
\* type, name in the normalized tags)
TagIndexQuery ==
  /\ req.pc = "tagIndex"
  /\ LET names == { NormalizeNFKC(filter.tags[i]) : i \in DOMAIN filter.tags }
         tagIndexes == { r \in chiiTagIndex :
                           /\ r.cat = "subject"
                           /\ r.type = filter.type
                           /\ r.name \in names }
     IN  req' = [req EXCEPT !.pc = "tagList",
                            !.tagIDs = { r.id : r \in tagIndexes },
                            !.queries = Append(@, "tagIndex")]
  /\ UNCHANGED << listCache, filter, sort, tvars, fvars >>

\* The ids of the subjects that carry one of the tags.
TagMembers(tagIDs) ==
  { r.mainID : r \in { t \in chiiTagList :
                         /\ t.cat = "subject"
                         /\ t.type = filter.type
                         /\ t.tagID \in tagIDs } }

\* A tag step that adds the tagged subjects to the ids it has.
TagListQuery_Union ==
  /\ req.pc = "tagList"
  /\ LET subjectIDs == TagMembers(req.tagIDs)
         r == [req EXCEPT !.queries = Append(@, "tagList")]
         all == Range(req.ids) \cup subjectIDs
     IN  req' = [r EXCEPT !.pc = "count", !.hasIds = TRUE,
                          !.ids = OrderBy(all, [x \in all |-> x])]
  /\ UNCHANGED << listCache, filter, sort, tvars, fvars >>

\* const tagList = await db.selectDistinct({mid}).from(chiiTagList).where(cat,
\* type, tagID in tagIDs), and filter.ids: the ids it had that are tagged, or
\* the tagged ids. With no tag index row the list of inArray is empty: the
\* query builder throws, or the query is sent and matches nothing.
TagListQuery ==
  /\ req.pc = "tagList"
  /\ LET subjectIDs == TagMembers(req.tagIDs)
         r == [req EXCEPT !.queries = Append(@, "tagList")]
         kept == IF req.hasIds
                 THEN SelectSeq(req.ids, LAMBDA id : id \in subjectIDs)
                 ELSE OrderBy(subjectIDs, [x \in subjectIDs |-> x])
     IN  \/ req' = [r EXCEPT !.pc = "count", !.hasIds = TRUE, !.ids = kept]
         \/ req.tagIDs = {} /\ req' = PageThrow(req)
  /\ UNCHANGED << listCache, filter, sort, tvars, fvars >>

\* A count step that goes on to the page query whatever the count.
CountQuery_AlwaysPages ==
  /\ req.pc = "count"
  /\ req' = [req EXCEPT !.pc = "page", !.count = Cardinality(Matching),
                         !.total = CeilDiv(Cardinality(Matching), PageSize),
                         !.queries = Append(@, "count")]
  /\ UNCHANGED << listCache, filter, sort, tvars, fvars >>

\* const [{ count = 0 } = {}] = await db.select({count}) ... where(conditions);
\* if (count === 0) return the empty page; total = Math.ceil(count / 24).
\* With filter.ids empty the list of inArray is empty, as above.
CountQuery ==
  /\ req.pc = "count"
  /\ LET count == Cardinality(Matching)
         r == [req EXCEPT !.count = count, !.queries = Append(@, "count")]
     IN  \/ req' = IF count = 0 THEN PageReturn(r, EmptyPage)
                   ELSE [r EXCEPT !.pc = "page", !.total = CeilDiv(count, PageSize)]
         \/ req.hasIds /\ req.ids = << >> /\ req' = PageThrow(req)
  /\ UNCHANGED << listCache, filter, sort, tvars, fvars >>

\* if (sort === Trends && !filter.ids) return the empty page;
\* const data = await query.orderBy(...).limit(24).offset((page - 1) * 24);
\* result = { data: the ids, total }
PageQuery ==
  /\ req.pc = "page"
  /\ LET rows == OrderBy(Matching, [id \in Matching |-> OrderKey(sort, req.ids, id)])
         selected == LimitOffset(rows, PageSize, (req.page - 1) * PageSize)
     IN  req' = IF sort = "trends" /\ ~req.hasIds THEN PageReturn(req, EmptyPage)
                ELSE [req EXCEPT !.pc = "write",
                                 !.result = [data |-> selected, total |-> req.total],
                                 !.queries = Append(@, "page")]
  /\ UNCHANGED << listCache, filter, sort, tvars, fvars >>

\* A cache write with the one time to live for every page.
ListSetex_SameTTL ==
  /\ req.pc = "write"
  /\ listCache' = RedisSetexCache(listCache, PageKey(req.page), OtherPageEX,
                                  JSONStringifyPage(req.result))
  /\ req' = PageReturn([req EXCEPT !.wrote = OtherPageEX], req.result)
  /\ UNCHANGED << filter, sort, tvars, fvars >>

\* await redis.setex(cacheKey, page === 1 ? 86400 : 3600,
\* JSON.stringify(result)); return result
ListSetex ==
  /\ req.pc = "write"
  /\ LET seconds == IF req.page = 1 THEN FirstPageEX ELSE OtherPageEX
     IN  /\ listCache' = RedisSetexCache(listCache, PageKey(req.page), seconds,
                                         JSONStringifyPage(req.result))
         /\ req' = PageReturn([req EXCEPT !.wrote = seconds], req.result)
  /\ UNCHANGED << filter, sort, tvars, fvars >>

\* Time passes for the list cache: entries whose time to live ran out are
\* gone. A call that is over is forgotten.
ListTick ==
  /\ listCache' = [k \in DOMAIN listCache |-> Aged(listCache[k], ListTickStep)]
  /\ req' = [(IF req.pc = "done" THEN NoReq ELSE req) EXCEPT
                !.lapsed = { p \in Pages : /\ listCache[PageKey(p)] # NoEntry
                                           /\ listCache'[PageKey(p)] = NoEntry }]
  /\ UNCHANGED << filter, sort, tvars, fvars >>

\* Page calls of one filter and sort, one at a time, over a list cache that
\* expires.
PageNext ==
  \/ \E page \in Pages : FetchPageCall(page)
  \/ ListGet
  \/ ResolveTrending
  \/ TagIndexQuery
  \/ TagListQuery
  \/ CountQuery
  \/ PageQuery
  \/ ListSetex
  \/ ListTick

PageSpec == PageInit /\ [][PageNext]_vars

\* An aggregation writes the first trending list of the type of the filter:
\* await redis.set(trendingKey, JSON.stringify(ids)).
TrendingWritten ==
  /\ redis[getTrendingSubjectKey(filter.type, "month")] = NoEntry
  /\ \E l \in RankLists :
       redis' = RedisSet(redis, getTrendingSubjectKey(filter.type, "month"),
                         JSONStringify(l))
  /\ UNCHANGED << interests, pc, arg, minDateline, data, returned, deleted,
                  afterExpiry, lockBy, ranked, lastRead, pending, outdated,
                  fvars, pvars >>

\* Page calls while the trending list of the type may come into being.
RefreshNext ==
  \/ PageNext
  \/ TrendingWritten

RefreshSpec == PageInit /\ [][RefreshNext]_vars

\* The pairs concurrent invocations contend for: one kind, with a period that
\* has a duration and with one that has none.
Contended == { << "Anime", "month" >>, << "Anime", "unknown" >> }

\* Concurrent invocations of updateTrendingSubjects under passing time.
Next ==
  \/ \E p \in Procs : updateTrendingSubjects(p, Contended)
  \/ Tick

Spec == Init /\ [][Next]_vars

\* The pairs the scheduler recomputes: every kind with the month period.
Listed == { << "Anime", "month" >>, << "Book", "month" >> }

\* One invocation of updateTrendingSubjects at a time, as the scheduler runs
\* them, with readers in between its awaits.
ReadNext ==
  \/ updateTrendingSubjects("a", Listed)
  \/ Read
  \/ Tick

ReadSpec == Init /\ [][ReadNext]_vars

\* A reader asks for the head of the list of a contended pair.
Peek ==
  \E t \in Contended : getTrendingSubjects(t[1], t[2], MaxLimit, 0)

\* Concurrent invocations of updateTrendingSubjects with readers in between
\* their awaits.
PeekNext ==
  \/ \E p \in Procs : updateTrendingSubjects(p, Contended)
  \/ Peek
  \/ Tick

PeekSpec == Init /\ [][PeekNext]_vars

\* The scheduler calls updateTrendingSubjects(subjectType, period) again.
Scheduled(t) == \E p \in Procs : Call(p, t[1], t[2], FALSE)

\* Time passes, the scheduler keeps triggering, and the awaits of invocation
\* "b" are answered (Redis replies, the select returns or throws); invocation
\* "a" may hang at any of its awaits for ever.
FairSpec ==
  /\ Spec
  /\ WF_vars(Tick)
  /\ WF_vars(Step("b"))
  /\ \A t \in Contended : SF_vars(Scheduled(t))

\* ------------------------------------------------------------- vocabulary

\* The lock entry of output key k exists (in the state, in the next state).
LockHeld(k) == Truthy(redis[lockKey(k)].val)
LockHeldNext(k) == Truthy(redis'[lockKey(k)].val)

\* A lock entry as updateTrendingSubjects sets it.
FreshLock == [val |-> << "1" >>, ex |-> LockEX]

\* Past the lock: at the select, at the write of the result, at the release.
Computing == {"query", "save", "unlock"}

\* Invocation p takes this step (every step of an invocation moves it).
Moves(p) == pc'[p] # pc[p]

\* This step is one of passing time.
TimePasses == \A p \in Procs : pc'[p] = pc[p]

\* This step is the deletion of k's lock by a flush.
FlushOf(k) == \E p \in Procs : pc[p] = "flush" /\ Moves(p) /\ TKey(p) = k

ValidKeys == { k \in TrendingKeys : getTrendingPeriodDuration(k[4]) # 0 }
InvalidKeys == TrendingKeys \ ValidKeys

\* ------------------------------------------------------------------ claims

\* C1: among triggers without forceFlush, at most one recomputation of a pair
\* is in flight: no trigger goes on from setting the lock to the aggregate
\* query while another trigger of the same pair is computing under a lock
\* entry that it set and that has not expired.
C1_AtMostOneInFlight ==
  [][ \A p, q \in Procs :
        ~ ( /\ p # q
            /\ pc[q] = "lock" /\ pc'[q] = "query" /\ ~arg[q].flush
            /\ pc[p] \in Computing /\ ~arg[p].flush
            /\ TKey(p) = TKey(q)
            /\ LockHeld(TKey(p)) /\ lockBy[TKey(p)] = p ) ]_vars

\* C2: a trigger without forceFlush whose lock check finds a live lock entry
\* returns normally from that check: no error, no aggregate query, the lock
\* entry, the output key and every other cache entry unchanged.
C2_BusyLockIsNoop ==
  [][ \A p \in Procs :
        (pc[p] = "check" /\ ~arg[p].flush /\ LockHeld(TKey(p)) /\ Moves(p))
          => /\ pc'[p] = "idle"
             /\ returned' = [who |-> p, how |-> "noop", arg |-> arg[p]]
             /\ redis' = redis
             /\ \A q \in Procs \ {p} : pc'[q] = pc[q] ]_vars

\* C2 witness: a trigger without forceFlush has just returned as a no-op while
\* the lock of its pair is held.
C2_Witness ==
  /\ returned.how = "noop"
  /\ ~returned.arg.flush
  /\ LockHeld(getSubjectTrendingKey(returned.arg.subjectType, returned.arg.period))

\* C3 as stated (read for a period that has a duration): a trigger with
\* forceFlush whose flush removed an existing lock entry never no-ops: its
\* check goes on to set the lock, and from there it goes on to the aggregate
\* query under a fresh lock.
C3_FlushNeverNoops ==
  [][ \A p \in Procs :
        (arg[p].flush /\ deleted[p] /\ TKey(p) \in ValidKeys /\ Moves(p))
          => /\ pc[p] = "check" => pc'[p] = "lock"
             /\ pc[p] = "lock" =>
                  pc'[p] = "query" /\ redis'[LKey(p)] = FreshLock ]_vars

\* C3 amended: the flush removes the lock entry before the check; the check
\* then passes unless the lock has been set again in between; having passed,
\* the trigger sets a fresh lock and, for a period with a duration, goes on to
\* the aggregate query.
C3_FlushRemovesLock ==
  [][ \A p \in Procs :
        (arg[p].flush /\ Moves(p))
          => /\ pc[p] = "flush" =>
                  pc'[p] = "check" /\ ~LockHeldNext(TKey(p))
             /\ (pc[p] = "check" /\ ~LockHeld(TKey(p))) => pc'[p] = "lock"
             /\ pc[p] = "lock" =>
                  /\ redis'[LKey(p)] = FreshLock
                  /\ getTrendingPeriodDuration(arg[p].period) # 0
                       => pc'[p] = "query" ]_vars

\* C3 witness: a trigger with forceFlush that removed an existing lock entry is
\* at the aggregate query.
C3_Witness ==
  \E p \in Procs : arg[p].flush /\ deleted[p] /\ pc[p] = "query"

\* C4: a trigger alone: the write of the result stores the ranked list under
\* the output key and leaves the lock; the release then deletes the lock and
\* the trigger returns; so whenever no trigger is computing, a lock entry that
\* exists was left by a trigger that failed or aborted, never by one that
\* succeeded, and a trigger without forceFlush that finds no lock goes on to
\* set it and to the aggregate query.
C4_ReleaseOnSuccess ==
  /\ [](pc["a"] \notin Computing
          => \A k \in TrendingKeys : LockHeld(k) => lockBy[k] = "left")
  /\ [](returned.how = "done"
          => LET k == getSubjectTrendingKey(returned.arg.subjectType,
                                            returned.arg.period)
             IN  ~LockHeld(k) /\ redis[k] = [val |-> JSONStringify(ranked[k]), ex |-> 0])
  /\ [][ \A p \in Procs :
           Moves(p)
             => /\ pc[p] = "save" =>
                     /\ pc'[p] = "unlock"
                     /\ redis'[TKey(p)] =
                          [val |-> JSONStringify(TrendingItems(data[p])), ex |-> 0]
                     /\ redis'[LKey(p)] = redis[LKey(p)]
                /\ pc[p] = "unlock" =>
                     /\ pc'[p] = "idle" /\ returned'.how = "done"
                     /\ ~LockHeldNext(TKey(p))
                     /\ redis'[TKey(p)] = redis[TKey(p)]
                /\ (pc[p] = "check" /\ ~arg[p].flush /\ ~LockHeld(TKey(p)))
                     => pc'[p] = "lock"
                /\ (pc[p] = "lock" /\ TKey(p) \in ValidKeys)
                     => pc'[p] = "query" ]_vars

\* C4 witness: a trigger without forceFlush is at the aggregate query of a pair
\* whose output key an earlier, successful trigger has written.
C4_Witness ==
  /\ pc["a"] = "query" /\ ~arg["a"].flush
  /\ Truthy(redis[TKey("a")].val)
  /\ ranked[TKey("a")] # << >>

\* C5: a trigger whose aggregate query throws does not delete the lock it set,
\* the failure reaches the caller, the lock entry then stays until its time to
\* live runs out (a forceFlush aside), and while it is there no trigger
\* without forceFlush queries the Store for that pair.
C5_FailedLockStays ==
  [][ /\ \A p \in Procs :
           (pc[p] = "query" /\ pc'[p] = "idle")
             => returned'.how = "error" /\ redis' = redis
      /\ \A k \in ValidKeys :
           (lockBy[k] = "left" /\ LockHeld(k))
             => /\ ~LockHeldNext(k) => (TimePasses \/ FlushOf(k))
                /\ \A q \in Procs :
                     ~ (pc[q] = "query" /\ Moves(q) /\ TKey(q) = k /\ ~arg[q].flush) ]_vars

\* C6: a trigger with a period that has no duration never reaches the aggregate
\* query and never writes the output key; it returns as rejected right after
\* setting the lock, which it leaves in place with its time to live; that lock
\* entry goes away only by expiry (or by a forceFlush).
C6_UnknownPeriodRejected ==
  /\ [](\A p \in Procs : pc[p] \in Computing => TKey(p) \in ValidKeys)
  /\ [](\A k \in InvalidKeys : redis[k] = NoEntry)
  /\ [][ /\ \A p \in Procs :
              (pc[p] = "lock" /\ TKey(p) \in InvalidKeys /\ Moves(p))
                => /\ pc'[p] = "idle"
                   /\ returned' = [who |-> p, how |-> "invalid", arg |-> arg[p]]
                   /\ redis' = [redis EXCEPT ![LKey(p)] = FreshLock]
         /\ \A k \in InvalidKeys :
              (LockHeld(k) /\ ~LockHeldNext(k)) => (TimePasses \/ FlushOf(k)) ]_vars

\* C6 witness: a trigger with such a period has just been rejected and its lock
\* is in place.
C6_Witness ==
  /\ returned.how = "invalid"
  /\ redis[lockKey(getSubjectTrendingKey(returned.arg.subjectType,
                                         returned.arg.period))] = FreshLock

\* The aggregate query of output key k is issued in this step.
QueryOf(k) ==
  \E p \in Procs : TKey(p) = k /\ (QueryStore(p) \/ QueryFails(p))

\* C7: every lock entry has a time to live, at most that of its creation; a
\* lock entry that exists (left by a failed, aborted or slow computation, or
\* held) is eventually gone, so that every pair is without lock entry again and
\* again; a trigger without forceFlush whose check finds no
\* lock entry goes on to set the lock and, for a period with a duration, to the
\* aggregate query; and as time passes and the scheduler keeps triggering, the
\* aggregate query of every pair whose period has a duration is issued again
\* and again.
C7_NoStarvation ==
  /\ [](\A k \in TrendingKeys :
          LockHeld(k) => redis[lockKey(k)].ex \in 1..LockEX)
  /\ [][ \A p \in Procs :
           (~arg[p].flush /\ Moves(p))
             => /\ (pc[p] = "check" /\ ~LockHeld(TKey(p))) => pc'[p] = "lock"
                /\ pc[p] = "lock" =>
                     /\ redis'[LKey(p)] = FreshLock
                     /\ TKey(p) \in ValidKeys => pc'[p] = "query" ]_vars
  /\ \A k \in TrendingKeys : []<>(~LockHeld(k))
  /\ \A t \in Contended :
       getSubjectTrendingKey(t[1], t[2]) \in ValidKeys
         => []<><<QueryOf(getSubjectTrendingKey(t[1], t[2]))>>_vars

\* C7 witness: a trigger without forceFlush, called after a lock entry left
\* behind for its pair had run out, holds the lock it set and is at the
\* aggregate query.
C7_Witness ==
  \E p \in Procs :
    /\ pc[p] = "query" /\ ~arg[p].flush /\ afterExpiry[p]
    /\ lockBy[TKey(p)] = p /\ LockHeld(TKey(p))

\* C8: getTrendingSubjects only reads: the step of a read leaves every cache
\* entry (output keys and locks), the store and every invocation of
\* updateTrendingSubjects as they were, so it neither queries the Store nor
\* starts a computation; with no output key it returns the empty sequence.
C8_ReadOnly ==
  [][ lastRead'.called
        => /\ UNCHANGED << redis, interests, pc, arg, minDateline, data, deleted,
                           afterExpiry, lockBy, ranked, pending, outdated, fvars, pvars >>
           /\ redis[getSubjectTrendingKey(lastRead'.subjectType, lastRead'.period)]
                = NoEntry
                => lastRead'.result = << >> ]_vars

\* C8 witness: a read of a pair without output key returned the empty sequence
\* while a trigger of that pair is at the aggregate query.
C8_Witness ==
  /\ lastRead.called /\ lastRead.result = << >>
  /\ pc["a"] = "query"
  /\ TKey("a") = getSubjectTrendingKey(lastRead.subjectType, lastRead.period)
  /\ redis[TKey("a")] = NoEntry

\* The items of list at positions [offset, offset + limit), fewer past its end.
Window(list, offset, limit) ==
  LET avail == IF Len(list) > offset THEN Len(list) - offset ELSE 0
      n == IF limit < avail THEN limit ELSE avail
  IN  [ i \in 1..n |-> list[offset + i] ]

\* C9: a read returns the contiguous part of the ranked list last written to
\* the output key at positions [offset, offset + limit), in rank order, shorter
\* or empty when the range runs past the end of the list.
C9_ReadSlices ==
  lastRead.called
    => lastRead.result =
         Window(ranked[getSubjectTrendingKey(lastRead.subjectType, lastRead.period)],
                lastRead.offset, lastRead.limit)

\* C9 witness: a read with offset 1 and limit 2 of a list of two items returned
\* its second item alone.
C9_Witness ==
  /\ lastRead.called /\ lastRead.offset = 1 /\ lastRead.limit = 2
  /\ Len(ranked[getSubjectTrendingKey(lastRead.subjectType, lastRead.period)]) = 2
  /\ Len(lastRead.result) = 1

\* An interest row counts for a kind when it lies inside the window that
\* starts at minDate: by updatedAt for Book and Music, by doingDateline else.
InsideWindow(i, subjectType, minDate) ==
  IF subjectType \in {"Book", "Music"}
  THEN i.updatedAt > minDate
  ELSE i.doingDateline > minDate

\* What C10 asks of a ranked list.
WellRanked(list, subjectType, minDate) ==
  /\ Len(list) <= QueryLimit
  /\ \A i, j \in DOMAIN list : i # j => list[i].id # list[j].id
  /\ \A i, j \in DOMAIN list : i < j => list[i].total >= list[j].total
  /\ \A i \in DOMAIN list :
       /\ \E s \in chiiSubjects :
            s.id = list[i].id /\ s.typeID = subjectType /\ s.ban # 1 /\ ~s.nsfw
       /\ list[i].total >= 1
       /\ list[i].total =
            Cardinality({ r \in interests :
                            r.subjectID = list[i].id
                              /\ InsideWindow(r, subjectType, minDate) })

C11_PairsIndependent ==
  [][ \A p \in Procs :
        Moves(p)
          => /\ \A j \in Keys :
                  redis'[j] # redis[j]
                    => pc[p] # "idle" /\ j \in {TKey(p), lockKey(TKey(p))}
             /\ pc[p] = "check"
                  => (pc'[p] = "idle" <=> Truthy(redis[lockKey(TKey(p))].val)) ]_vars

\* C11 witness: a trigger is at the aggregate query, under the lock it set,
\* while the lock entry of another pair, left behind, is still there.
C11_Witness ==
  \E p \in Procs :
    /\ pc[p] = "query" /\ lockBy[TKey(p)] = p /\ LockHeld(TKey(p))
    /\ \E k \in TrendingKeys \ {TKey(p)} : LockHeld(k) /\ lockBy[k] = "left"

\* C12: an output key never has a time to live; it changes only in the write
\* of the result by a trigger whose aggregate query returned, which stores the
\* whole list of that query (so it is never deleted, and no trigger that
\* no-ops, aborts or fails changes it); and a read in between the steps of
\* triggers returns the empty sequence when no list has been written, and
\* otherwise the requested part of the one list the last such write stored.
C12_OutputWrittenWhole ==
  /\ [](\A k \in TrendingKeys : redis[k].ex = 0)
  /\ [][ \A k \in TrendingKeys :
           redis'[k] # redis[k]
             => \E p \in Procs :
                  /\ pc[p] = "save" /\ pc'[p] = "unlock" /\ TKey(p) = k
                  /\ redis'[k] =
                       [val |-> JSONStringify(TrendingItems(data[p])), ex |-> 0] ]_vars
  /\ [](lastRead.called
          => LET k == getSubjectTrendingKey(lastRead.subjectType, lastRead.period)
             IN  IF redis[k] = NoEntry
                 THEN lastRead.result = << >> /\ ranked[k] = << >>
                 ELSE /\ redis[k].val = JSONStringify(ranked[k])
                      /\ lastRead.result =
                           Window(ranked[k], lastRead.offset, lastRead.limit))

\* C12 witness: a read returned the list an earlier trigger wrote, while two
\* triggers of the pair are under way, one of them about to write its own.
C12_Witness ==
  /\ lastRead.called /\ Len(lastRead.result) = 2
  /\ pc["a"] = "save" /\ pc["b"] = "query"
  /\ TKey("a") = getSubjectTrendingKey(lastRead.subjectType, lastRead.period)
  /\ TKey("b") = TKey("a")
  /\ TrendingItems(data["a"]) # ranked[TKey("a")]

\* ------------------------------------------------ vocabulary of the fetchers

\* The record the store holds of entity id, in response shape.
Stored(id) == Convert(StoreRow(kind, id))

\* Entity id is banned in the store.
Banned(id) == StoreRow(kind, id).ban = 1

\* A single fetch is about to read the cache and will hit.
SingleHit == call.pc = "get" /\ call.op = "id" /\ Truthy(Cached(call.ids[1]))

\* The step is one of the call in flight (the others leave it alone).
Acts == call' # call

\* A call is over and returned a value.
Returned(op) == call.pc = "done" /\ call.op = op /\ call.how = "returned"

\* C13: on a cache hit of a kind with the NSFW flag, a fetch by id of a payload
\* with nsfw = true returns absent when allowNsfw is false and the record when
\* it is true; either way it makes no store query and no cache write.
C13_HitReevaluatesNsfw ==
  [][ (Acts /\ SingleHit /\ FiltersNsfw(kind)
       /\ JSONParseRecord(Cached(call.ids[1])).nsfw)
        => LET id == call.ids[1]
               rec == JSONParseRecord(Cached(id))
           IN  /\ call'.pc = "done" /\ call'.how = "returned"
               /\ call'.result = IF call.opts.allowNsfw THEN (id :> rec) ELSE << >>
               /\ call'.selects = << >>
               /\ call'.wrote = {}
               /\ cache' = cache ]_vars

\* C13 witness: a fetch by id of the NSFW entity, with allowNsfw, got the
\* record out of the cache.
C13_Witness ==
  /\ Returned("id") /\ FiltersNsfw(kind) /\ call.opts.allowNsfw
  /\ call.gets = 1 /\ call.selects = << >>
  /\ DOMAIN call.result = {3} /\ call.result[3].nsfw

\* C14: no call made with allowNsfw = false holds or returns, as its single
\* result or as a value of its map, a record with nsfw = true, whether it came
\* out of the cache or out of the store.
C14_NsfwNeverLeaks ==
  (FiltersNsfw(kind) /\ ~call.opts.allowNsfw)
    => \A id \in DOMAIN call.result : ~call.result[id].nsfw

\* C14 witness: a batch call without allowNsfw that asked for the NSFW entity
\* found it in the cache, where an earlier call had put it, and returned the
\* other entity alone.
C14_Witness ==
  /\ Returned("ids") /\ FiltersNsfw(kind) /\ ~call.opts.allowNsfw
  /\ Range(call.input) = {1, 3}
  /\ call.selects = << >>
  /\ Truthy(Cached(3)) /\ JSONParseRecord(Cached(3)).nsfw
  /\ DOMAIN call.result = {1}

\* C15: when a fetch by id missed the cache and the store answers that it has
\* no row for it, the call returns absent and leaves the cache as it was, with no entry for
\* the key, so that the next lookup of the id goes to the store again.
C15_NoNegativeCaching ==
  /\ [][ (Acts /\ call.pc = "select" /\ call.op = "id" /\ call'.err = ""
           /\ SelectRows({call.ids[1]}, BanSingle(kind)) = {})
          => /\ call'.pc = "done" /\ call'.how = "returned"
             /\ call'.result = << >>
             /\ call'.wrote = {}
             /\ cache' = cache ]_vars
  /\ []((Returned("id") /\ call.selects # << >> /\ call.wrote = {})
          => cache[CacheKey(kind, call.input[1])] = NoEntry)

\* C15 witness: a fetch by id of an entity the store does not have yet
\* returned absent after asking the store.
C15_Witness ==
  /\ Returned("id") /\ call.input = << 1 >> /\ 1 \notin table
  /\ call.selects = << {1} >> /\ call.result = << >>
  /\ cache[CacheKey(kind, 1)] = NoEntry

\* C16: when a fetch by id missed the cache and the store returned a row, the
\* converted record is written (when the write does not fail) under the key
\* of the kind and id with a time to live, before the visibility test and whatever it says; and a fetch by
\* id that finds the entry returns without a store query.
C16_WarmsBeforeFilter ==
  [][ /\ (Acts /\ call.pc = "select" /\ call.op = "id" /\ call'.err = ""
          /\ SelectRows({call.ids[1]}, BanSingle(kind)) # {})
        => call'.pc = "write" /\ call'.found = << Stored(call.ids[1]) >>
      /\ (Acts /\ call.pc = "write" /\ call.op = "id" /\ call'.err = "")
        => LET id == call.ids[1]
           IN  /\ cache' = [cache EXCEPT ![CacheKey(kind, id)] =
                               [val |-> JSONStringifyRecord(Stored(id)),
                                ex |-> ONE_MONTH]]
               /\ JSONParseRecord(cache'[CacheKey(kind, id)].val) = Stored(id)
               /\ call'.pc = "done"
               /\ call'.result = IF Hidden(kind, Stored(id), call.opts) THEN << >>
                                 ELSE (id :> Stored(id))
      /\ (Acts /\ SingleHit) => call'.pc = "done" /\ call'.selects = << >> ]_vars

\* C16 witness: a fetch by id returned absent because the record is not
\* visible to it, and the record is in the cache.
C16_Witness ==
  /\ Returned("id") /\ call.wrote = {3} /\ call.result = << >>
  /\ Len(call.selects) = 1
  /\ cache[CacheKey(kind, 3)] =
       [val |-> JSONStringifyRecord(Stored(3)), ex |-> ONE_MONTH]

\* C17: a batch fetch, over a store that did not change during the call,
\* returns a map whose keys are exactly the distinct input ids that are in the
\* store, not banned and visible to the request.
C17_BatchKeysExact ==
  (Returned("ids") /\ call.store = table)
    => DOMAIN call.result =
         { id \in Range(call.input) \cap table :
             ~Banned(id) /\ ~Hidden(kind, Stored(id), call.opts) }

\* C18: a batch fetch of the empty id sequence returns the empty map without
\* a cache call and without a store query.
C18_EmptyInputNoCalls ==
  (call.op = "ids" /\ call.input = << >>)
    => /\ call.gets = 0
       /\ call.selects = << >>
       /\ call.pc = "done" => call.how = "returned" /\ call.result = << >>

\* C19: a batch fetch queries the store only when an id missed the cache, and
\* then with exactly the ids that missed: the multi-get leaves as missing the
\* ids without an entry, and a query is made only for a non-empty missing list,
\* with its ids.
C19_QueryOnlyMissing ==
  [][ /\ (call.pc = "get" /\ call.op = "ids" /\ call'.pc = "select")
        => Range(call'.missing) = { id \in Range(call.ids) : ~Truthy(Cached(id)) }
      /\ (call.op = "ids" /\ Len(call'.selects) > Len(call.selects))
        => /\ call.missing # << >>
           /\ call'.selects = << Range(call.missing) >> ]_vars

\* C20: in a kind with a ban flag, no cache entry holds a record of an entity
\* that is banned in the store, and no call returns one.
C20_BannedNeverServed ==
  HasBanFlag(kind)
    => \A id \in EntityIds :
         Banned(id)
           => /\ cache[CacheKey(kind, id)] = NoEntry
              /\ id \notin DOMAIN call.result

\* C21: a store error in the select of a fetcher fails the whole call: the
\* call throws, it returns no map (the hits it had collected are dropped), it
\* has written nothing to the cache, and the failing step leaves the cache as
\* it was; the same for a fetch by id.
C21_StoreErrorFailsCall ==
  /\ [](call.err = "store"
          => /\ call.pc = "done" /\ call.how = "threw"
             /\ call.result = << >>
             /\ call.wrote = {})
  /\ [][ (Acts /\ call'.err = "store") => cache' = cache ]_vars

\* C21 witness: the select of a batch call failed after the multi-get had hit
\* one of its two ids.
C21_Witness ==
  /\ call.err = "store" /\ call.op = "ids" /\ call.gets = 1
  /\ \E i, j \in Range(call.ids) : Truthy(Cached(i)) /\ ~Truthy(Cached(j))

\* The map a batch call that nothing interrupts returns from the cache and
\* the store as they are: the visible hits, and the visible rows the select
\* returns for the ids that miss.
BatchAnswer(ids, opts) ==
  LET hits == { id \in Range(ids) : Truthy(Cached(id)) }
      rows == SelectRows(Range(ids) \ hits, BanBatch(kind))
      recs == [id \in hits |-> JSONParseRecord(Cached(id))]
                @@ [id \in { r.id : r \in rows } |-> Stored(id)]
  IN  [id \in { i \in DOMAIN recs : ~Hidden(kind, recs[i], opts) } |-> recs[id]]

\* C22: the cache writes of a batch call stand each on its own. Every entry
\* in the cache is the whole record of the entity of its key; a write, and a
\* write that fails, leave what a batch call answers for any id as it was; a batch
\* call after an interrupted one misses none of the ids the interrupted call
\* left in the cache; and a batch call returns the map an uninterrupted call
\* returns.
C22_PartialWritesSafe ==
  /\ [](\A id \in EntityIds :
          Truthy(Cached(id))
            => /\ Cached(id) = JSONStringifyRecord(Stored(id))
               /\ JSONParseRecord(Cached(id)) = Stored(id)
               /\ id \in table)
  /\ [][ (Acts /\ call.pc = "write")
          => \A id \in EntityIds, opts \in Options(kind) :
               BatchAnswer(<< id >>, opts)' = BatchAnswer(<< id >>, opts) ]_vars
  /\ [][ (Acts /\ call.pc = "get" /\ call.op = "ids" /\ call'.pc = "select")
          => Range(call'.missing) \cap { id \in call.left : Truthy(Cached(id)) } = {} ]_vars
  /\ [][ (Acts /\ call.op = "ids" /\ call'.pc = "done" /\ call'.how = "returned"
           /\ call.store = table)
          => call'.result = BatchAnswer(call.input, call.opts)' ]_vars

\* C22 witness: a batch call returned both ids it was asked for, after asking
\* the store for one only: the other one was left in the cache by the call
\* before it, which a failing cache write interrupted.
C22_Witness ==
  /\ Returned("ids") /\ Cardinality(call.left) = 1
  /\ Cardinality(Range(call.input)) = 2 /\ call.left \subseteq Range(call.input)
  /\ call.selects = << Range(call.input) \ call.left >>
  /\ DOMAIN call.result = Range(call.input)

\* C23: fetchSlimBlogEntryByID returns an entry that is not public to its
\* owner and to a friend of the owner only, and a public entry to everyone,
\* on a hit as on a miss.
C23_BlogVisibility ==
  (Returned("id") /\ kind = "blog" /\ call.store = table)
    => LET id == call.input[1]
           rec == Stored(id)
           permitted == \/ rec.public
                        \/ rec.uid = call.opts.uid
                        \/ isFriends(rec.uid, call.opts.uid)
       IN  call.result = IF id \in table /\ permitted THEN (id :> rec) ELSE << >>

\* C23 witness: someone who is not the owner nor a friend asked for the
\* entry that is not public, found it in the cache, where a fetch of someone
\* else had put it, and got nothing.
C23_Witness ==
  /\ Returned("id") /\ kind = "blog" /\ call.input = << 3 >>
  /\ call.opts.uid = 3
  /\ call.gets = 1 /\ call.selects = << >>
  /\ call.result = << >>

\* What fetch...ByID(id, opts) does from the cache and the store as they
\* are, when nothing fails: what it returns and the cache it leaves.
SingleOutcomes(id, opts) ==
  IF Truthy(Cached(id))
  THEN LET rec == JSONParseRecord(Cached(id))
       IN  { [how |-> "returned",
              result |-> IF Hidden(kind, rec, opts) THEN << >> ELSE (id :> rec),
              cache |-> cache] }
  ELSE IF SelectRows({id}, BanSingle(kind)) = {}
  THEN { [how |-> "returned", result |-> << >>, cache |-> cache] }
  ELSE LET rec == Stored(id)
       IN  { [how |-> "returned",
              result |-> IF Hidden(kind, rec, opts) THEN << >> ELSE (id :> rec),
              cache |-> RedisSetexCache(cache, CacheKey(kind, id), CacheEX(kind),
                                        JSONStringifyRecord(rec))] }

\* What fetch...ByIDs([id], opts) does from the same state: on a hit of a kind
\* that selects without looking at `missing`, the select over no ids throws
\* or matches nothing.
BatchOutcomes(id, opts) ==
  LET rows == IF Truthy(Cached(id)) THEN {} ELSE SelectRows({id}, BanBatch(kind))
      after == IF rows = {} THEN cache
               ELSE RedisSetexCache(cache, CacheKey(kind, id), CacheEX(kind),
                                    JSONStringifyRecord(Stored(id)))
      done == [how |-> "returned", result |-> BatchAnswer(<< id >>, opts),
               cache |-> after]
  IN  IF Truthy(Cached(id)) /\ ~GuardsQuery(kind)
      THEN { done, [how |-> "threw", result |-> << >>, cache |-> cache] }
      ELSE { done }

\* C30: for a kind with both lookups, every id and every visibility option,
\* the fetch by id and the batch fetch of that one id, from the same cache and
\* store, return the same record or both none, and leave the same cache.
C30_SingleBatchAgree ==
  (HasSingle(kind) /\ HasBatch(kind))
    => \A id \in EntityIds, opts \in Options(kind) :
         SingleOutcomes(id, opts) = BatchOutcomes(id, opts)

\* ------------------------------------------- vocabulary of the subject lists

\* The step is one of the page call in flight, not the passing of time.
PageActs == [req' EXCEPT !.lapsed = {}] # [req EXCEPT !.lapsed = {}]

\* A page call is over and returned a page it had to compute and cache.
Computed == req.pc = "done" /\ req.how = "returned" /\ req.wrote > 0

\* The rows the where clause of the call selects, in the order of its sort.
MatchingInOrder ==
  OrderBy(Matching, [id \in Matching |-> OrderKey(sort, req.ids, id)])

\* C24: in the page fetchSubjectIDsByFilter computes, and in the page it
\* caches, total is the number of rows that match the conditions, and data is
\* at most 24 ids: the rows at the places (page-1)*24 .. page*24 - 1 of the
\* matching rows in the order of the sort.
C24_TotalAndWindow ==
  Computed
    => /\ req.result.total = Cardinality(Matching)
       /\ Len(req.result.data) <= PageSize
       /\ req.result.data =
            LimitOffset(MatchingInOrder, PageSize, (req.page - 1) * PageSize)
       /\ JSONParsePage(listCache[PageKey(req.page)].val) = req.result

\* C25: when the count query returns 0 the call returns { data: [], total: 0 }
\* at once: the page query is never made (it is made only after a count that
\* is not 0), and nothing is cached.
C25_ZeroCountReturns ==
  /\ [][ (PageActs /\ req.pc = "count" /\ Len(req'.queries) > Len(req.queries)
           /\ req'.count = 0)
          => /\ req'.pc = "done" /\ req'.how = "returned"
             /\ req'.result = EmptyPage
             /\ listCache' = listCache ]_vars
  /\ [](\A i \in DOMAIN req.queries : req.queries[i] = "page" => req.count > 0)

\* C25 witness: a call returned the empty page right after its count query
\* returned 0.
C25_Witness ==
  /\ req.pc = "done" /\ req.how = "returned"
  /\ req.queries # << >> /\ req.queries[Len(req.queries)] = "count"
  /\ req.count = 0 /\ req.result = EmptyPage

\* C26: with the trending sort, after a miss of the list cache, when the
\* cache has no trending list for the type of the filter, the call returns
\* the empty page with total 0, without an error, without a store query and
\* without a cache write.
C26_NoTrendingListYet ==
  [][ (PageActs /\ req.pc = "trending"
       /\ ~Truthy(RedisGet(getTrendingSubjectKey(filter.type, "month"))))
      => /\ req'.pc = "done" /\ req'.how = "returned"
         /\ req'.result = EmptyPage
         /\ req'.queries = << >>
         /\ listCache' = listCache ]_vars

\* C26 witness: a call with the trending sort looked at the list cache and at
\* the trending key, found neither, and returned the empty page.
C26_Witness ==
  /\ req.pc = "done" /\ req.how = "returned" /\ sort = "trends"
  /\ req.gets = 2 /\ req.queries = << >>
  /\ redis[getTrendingSubjectKey(filter.type, "month")] = NoEntry
  /\ req.result = EmptyPage

\* C27: the tag step leaves as the id constraint, when the call has a
\* trending id list, exactly the trending ids that carry a tag, in the order
\* of the trending list; and when it has none, the set of ids that carry a
\* tag.
C27_TagsIntersect ==
  [][ (PageActs /\ req.pc = "tagList" /\ req'.pc = "count")
      => LET members == TagMembers(req.tagIDs)
         IN  /\ req'.hasIds
             /\ IF req.hasIds
                THEN /\ Range(req'.ids) = Range(req.ids) \cap members
                     /\ \A i, j \in DOMAIN req'.ids :
                          i < j => FindInSet(req'.ids[i], req.ids)
                                     < FindInSet(req'.ids[j], req.ids)
                ELSE Range(req'.ids) = members ]_vars

\* C27 witness: a call with the trending sort and a tag is about to count,
\* with fewer ids than the trending list has and fewer than carry the tag.
C27_Witness ==
  /\ req.pc = "count" /\ sort = "trends" /\ filter.tags # << >>
  /\ req.ids = << 9, 5, 3, 1 >>
  /\ Len(req.rank) = 5
  /\ Cardinality(TagMembers(req.tagIDs)) = 6

\* C28: with the trending sort, the data of a computed page are the ids at
\* the places of the page in the trending list resolved for the call, cut
\* down to the rows that match: the order is that of the list alone, and page
\* 2 goes on where page 1 ended.
C28_TrendingOrderKept ==
  (Computed /\ sort = "trends")
    => req.result.data =
         LimitOffset(SelectSeq(req.rank, LAMBDA id : id \in Matching),
                     PageSize, (req.page - 1) * PageSize)

\* C28 witness: page 2 of the trending sort was computed and is not empty,
\* from a list that is not in the order of the ids.
C28_Witness ==
  /\ Computed /\ sort = "trends" /\ req.page = 2
  /\ req.result.data # << >>
  /\ \E i \in DOMAIN req.rank : i > 1 /\ req.rank[i] < req.rank[i - 1]

\* C29: the page written to the list cache lives 86400 seconds when it is
\* page 1 and 3600 seconds otherwise; of a page-1 entry and another entry of
\* the same age, when the other one runs out the page-1 entry stays as it
\* was; and a call that finds an entry returns it without a store query.
C29_FirstPageLivesLonger ==
  /\ [][ (PageActs /\ req.pc = "write")
          => listCache'[PageKey(req.page)] =
               [val |-> JSONStringifyPage(req.result),
                ex |-> IF req.page = 1 THEN 86400 ELSE 3600] ]_vars
  /\ [][ \A p \in Pages \ {1} :
           LET first == listCache[PageKey(1)]
               other == listCache[PageKey(p)]
           IN  (/\ first # NoEntry /\ other # NoEntry
                /\ 86400 - first.ex = 3600 - other.ex
                /\ listCache'[PageKey(p)] = NoEntry)
                 => /\ listCache'[PageKey(1)] # NoEntry
                    /\ listCache'[PageKey(1)].val = first.val ]_vars
  /\ [][ (PageActs /\ req.pc = "get" /\ Truthy(listCache[PageKey(req.page)].val))
          => /\ req'.pc = "done" /\ req'.how = "returned"
             /\ req'.result = JSONParsePage(listCache[PageKey(req.page)].val)
             /\ req'.queries = << >> ]_vars

\* C29 witness: page 1 was served from the cache after the expiry at which
\* the entry of page 2, written in the same hour, ran out.
C29_Witness ==
  /\ req.pc = "done" /\ req.how = "returned" /\ req.page = 1
  /\ req.gets = 1 /\ req.queries = << >>
  /\ 2 \in req.lapsed
  /\ listCache[PageKey(1)].ex = FirstPageEX - ListTickStep
  /\ req.result.data # << >>

\* C31: the release at the end of a recomputation deletes no lock entry but
\* the one its own invocation set: in no step does the release of one
\* invocation delete a live lock entry that another invocation of the pair
\* set and is still computing under.
C31_ReleaseOnlyOwnLock ==
  [][ \A p, q \in Procs :
        ~ ( /\ p # q
            /\ pc[p] = "unlock" /\ Moves(p)
            /\ pc[q] \in Computing
            /\ TKey(q) = TKey(p)
            /\ lockBy[TKey(p)] = q /\ LockHeld(TKey(p))
            /\ ~LockHeldNext(TKey(p)) ) ]_vars

\* C32: the output key of a pair only moves to results of later queries: no
\* invocation writes to it the rows of an aggregate query that was made before
\* the query whose result the key holds.
C32_OutputMovesForward ==
  [][ \A p \in Procs :
        (pc[p] = "save" /\ Moves(p)) => p \notin outdated ]_vars

\* C33: what a fetch does to the cache does not depend on the visibility
\* option of the call: no step reads the option to decide whether the store is
\* asked, for which ids, what is written or with which time to live. A step
\* that is not a write leaves the cache as it is; a write puts the whole
\* record of the next row under its key with the time to live of the kind;
\* the ids asked of the store are those without an entry; the rows to write
\* are those the store has for them.
C33_CacheIgnoresOption ==
  [][ (Acts /\ call.pc \in {"get", "select", "write"})
      => LET id == call.ids[1]
             absent == SelectSeq(call.ids, LAMBDA i : ~Truthy(Cached(i)))
             asked == IF call.op = "id" THEN {id} ELSE Range(call.missing)
             noBan == IF call.op = "id" THEN BanSingle(kind) ELSE BanBatch(kind)
             rows == SelectRows(asked, noBan)
         IN  /\ (call.pc # "write" \/ call'.err # "") => cache' = cache
             /\ (call.pc = "write" /\ call'.err = "")
                  => LET rec == Head(call.found)
                     IN  /\ cache' = [cache EXCEPT ![CacheKey(kind, rec.id)] =
                                         [val |-> JSONStringifyRecord(rec),
                                          ex |-> CacheEX(kind)]]
                         /\ call'.found = Tail(call.found)
             /\ (call.pc = "get" /\ call.op = "id")
                  => (call'.pc = "select" <=> ~Truthy(Cached(id)))
             /\ (call.pc = "get" /\ call.op = "ids" /\ call.ids # << >>)
                  => /\ call'.pc = "select" <=> ~(GuardsQuery(kind) /\ absent = << >>)
                     /\ call'.pc = "select" => call'.missing = absent
             /\ (call.pc = "select" /\ call'.err = "")
                  => /\ call'.pc = "write" <=> rows # {}
                     /\ call'.pc = "write"
                          => /\ Range(call'.found) = { Convert(r) : r \in rows }
                             /\ Len(call'.found) = Cardinality(rows) ]_vars

\* C33 witness: a batch call that does not allow NSFW returned without a
\* record that it had just written to the cache, whole and with the time to
\* live of the kind.
C33_Witness ==
  /\ Returned("ids") /\ FiltersNsfw(kind) /\ ~call.opts.allowNsfw
  /\ \E id \in call.wrote :
       /\ Stored(id).nsfw /\ id \notin DOMAIN call.result
       /\ cache[CacheKey(kind, id)] =
            [val |-> JSONStringifyRecord(Stored(id)), ex |-> CacheEX(kind)]
  /\ \E id \in DOMAIN call.result : id \in call.wrote

\* C34: no degraded empty page gets into the list cache. Only the write at
\* the end of a computed page changes the list cache, so every early return
\* leaves it as it was; no entry holds the page { data: [], total: 0 }; and
\* the call for the same page that follows an early return is not served
\* from the cache: it looks for the trending list or asks the store again.
C34_NoDegradedPageCached ==
  /\ [][ (PageActs /\ req'.pc # "idle" /\ req.pc # "write")
          => listCache' = listCache ]_vars
  /\ [][ (PageActs /\ EarlyReturn(req')) =>
           /\ req'.result = EmptyPage
           /\ listCache' = listCache
           /\ listCache[PageKey(req.page)] = NoEntry ]_vars
  /\ [](\A k \in DOMAIN listCache :
          listCache[k] # NoEntry => JSONParsePage(listCache[k].val) # EmptyPage)
  /\ []((req.pc = "done" /\ req.how = "returned" /\ req.retry = req.page)
          => ~(req.gets = 1 /\ req.queries = << >>))

\* C34 witness: a call returned the empty page because there was no trending
\* list; the list was written; the next call for the same page computed and
\* cached a page with ids.
C34_Witness ==
  /\ Computed /\ sort = "trends" /\ req.retry = req.page
  /\ req.result.data # << >> /\ req.result.total > 0
  /\ JSONParsePage(listCache[PageKey(req.page)].val) = req.result

====
